---- MODULE Spec2Model ----
(***************************************************************************)
(* The EventSequencer of the calculation graph (calc/event_sequencer.go):  *)
(* a coalescing buffer between the calculation graph's callbacks and the   *)
(* dataplane.  The On* callbacks record pending changes; Flush emits them  *)
(* to the downstream Callback in dependency order.                         *)
(***************************************************************************)
EXTENDS Integers, Sequences, FiniteSets, TLC

(***************************************************************************)
(* Bounds of the model.                                                    *)
(***************************************************************************)
\* Longest recorded run of callbacks between two flushes (IP-set runs).
MaxBatchIPSets == 4
\* Longest recorded run of callbacks between two flushes (keyed-object runs).
MaxBatchKeyed == 3
\* Longest recorded run of callbacks between two flushes (runs over all objects).
MaxBatchCoalesce == 2
\* Most calls, callbacks and flushes, given to each of two sequencers.
MaxReplayCalls == 4

(***************************************************************************)
(* Values the callbacks are called with.                                   *)
(***************************************************************************)
Nil == "nil"

SetIDs == {"s1", "s2"}
\* ip.Addr values, the last byte of 10.0.0.x
Addrs == {1, 2}

\* model.PolicyKey{Name}, model.ProfileRulesKey{ProfileKey{Name}}
PolicyKeys == {[Name |-> "polA"], [Name |-> "polB"]}
ProfileKeys == {[Name |-> "profA"], [Name |-> "profB"]}

\* *ParsedRules, reduced to what the messages carry on: the IP sets the rules
\* reference and the policy's do-not-track flag.
ParsedRules(ipSets, untracked) == [ipSets |-> ipSets, Untracked |-> untracked]
AllRules == {ParsedRules(S, u) : S \in SUBSET SetIDs, u \in BOOLEAN}

\* model.WorkloadEndpointKey and model.HostEndpointKey
WorkloadEndpointKey(host, orch, wl, ep) ==
    [kind |-> "WorkloadEndpointKey", Hostname |-> host, OrchestratorID |-> orch,
     WorkloadID |-> wl, EndpointID |-> ep]
HostEndpointKey(host, ep) ==
    [kind |-> "HostEndpointKey", Hostname |-> host, OrchestratorID |-> "",
     WorkloadID |-> "", EndpointID |-> ep]
wlKey == WorkloadEndpointKey("localhost", "orch", "wl1", "ep1")
hostKey == HostEndpointKey("localhost", "eth0")
EndpointKeys == {wlKey, hostKey}

\* *model.WorkloadEndpoint / *model.HostEndpoint, reduced to the profile IDs
Endpoint(kind, profileIDs) == [kind |-> kind, ProfileIDs |-> profileIDs]
EndpointFor(key, profileIDs) ==
    Endpoint(IF key.kind = "WorkloadEndpointKey" THEN "WorkloadEndpoint"
             ELSE "HostEndpoint", profileIDs)

\* a nil endpoint: the endpoint is deleted
NilEndpoint == Endpoint("nil", <<>>)

\* PolKV and tierInfo (calc_graph.go), reduced to the fields the sequencer reads
PolKV(key, doNotTrack) == [Key |-> key, DoNotTrack |-> doNotTrack]
TierInfo(name, orderedPolicies) == [Name |-> name, OrderedPolicies |-> orderedPolicies]

\* host names of HostIP updates and their addresses
Hostnames == {"hostA", "hostB"}

\* net.IPNet values of IP pools: <<address, prefix length>>
PoolNets == {<<"10.0.0.0", 24>>, <<"10.1.0.0", 16>>}
\* model.IPPoolKey{CIDR}
IPPoolKey(n) == [type |-> "model.IPPoolKey", CIDR |-> n]
\* *model.IPPool
IPPool(n, masq) == [CIDR |-> n, Masquerade |-> masq]

\* map[string]string configurations
Configs == {"cfg1", "cfg2"}

(***************************************************************************)
(* State of the EventSequencer.                                            *)
(***************************************************************************)
VARIABLES
    pendingAddedIPSets,         \* set.Set of set IDs
    pendingRemovedIPSets,       \* set.Set of set IDs
    pendingAddedIPs,            \* multidict: set of <<setID, addr>>
    pendingRemovedIPs,          \* multidict: set of <<setID, addr>>
    pendingPolicyUpdates,       \* map PolicyKey -> rules
    pendingPolicyDeletes,       \* set.Set of PolicyKey
    pendingProfileUpdates,      \* map ProfileRulesKey -> rules
    pendingProfileDeletes,      \* set.Set of ProfileRulesKey
    pendingEndpointUpdates,     \* map endpoint key -> endpoint
    pendingEndpointTierUpdates, \* map endpoint key -> tiers
    pendingEndpointDeletes,     \* set.Set of endpoint keys
    pendingHostIPUpdates,       \* map hostname -> address
    pendingHostIPDeletes,       \* set.Set of hostnames
    pendingIPPoolUpdates,       \* map ip.CIDR -> pool
    pendingIPPoolDeletes,       \* set.Set (holds ip.CIDR values)
    pendingNotReady,            \* bool
    pendingGlobalConfig,        \* map or Nil
    pendingHostConfig,          \* map or Nil
    sentIPSets, sentPolicies, sentProfiles, sentEndpoints, sentHostIPs, sentIPPools,
    fault,                      \* "none", or the panic / fatal error that ended the process
    out,                        \* the messages the last operation handed to Callback, in order
    \* history variables
    lastOp,                     \* "Init", "On" (a callback) or "Flush"
    prevFlush,                  \* after two flushes in a row: did the first emit?
    sentBefore,                 \* the sent sets as they were before the last operation
    notReadyCalled,             \* OnDatastoreNotReady was called in the current batch
    batch,                      \* the callbacks of the current batch, in order
    upstream,                   \* what the calculation graph holds active, by its callbacks
    declared,                   \* what the messages emitted so far leave declared
    declaredBefore,             \* declared, as it was before the last operation
    upMembers,                  \* the IPs the calculation graph holds in each IP set
    downMembers,                \* the IPs the receiver of the messages holds in each IP set
    \* the calculation graph (calc_graph.go)
    localEndpointFilter,        \* endpointHostnameFilter, with the last update it was given
    poc,                        \* PolicySorter, with the results of its last operation
    \* a second sequencer given the calls of a first
    replay,                     \* the first one's calls and outputs; how far the second is
    \* logging (logutils)
    logrus,                     \* the standard logger: its level, output, formatter and hooks
    logging                     \* how far the set-up of the logging is, and its parameters

ipSetPending == <<pendingAddedIPSets, pendingRemovedIPSets, pendingAddedIPs, pendingRemovedIPs>>
policyPending == <<pendingPolicyUpdates, pendingPolicyDeletes>>
profilePending == <<pendingProfileUpdates, pendingProfileDeletes>>
endpointPending == <<pendingEndpointUpdates, pendingEndpointTierUpdates, pendingEndpointDeletes>>
hostIPPending == <<pendingHostIPUpdates, pendingHostIPDeletes>>
ipPoolPending == <<pendingIPPoolUpdates, pendingIPPoolDeletes>>
configPending == <<pendingGlobalConfig, pendingHostConfig>>
sentVars == <<sentIPSets, sentPolicies, sentProfiles, sentEndpoints, sentHostIPs, sentIPPools>>
bufVars == <<ipSetPending, policyPending, profilePending, endpointPending, hostIPPending,
             ipPoolPending, pendingNotReady, configPending, sentVars>>
vars == <<bufVars, fault, out, lastOp, prevFlush, sentBefore, notReadyCalled, batch,
          upstream, declared, declaredBefore, upMembers, downMembers,
          localEndpointFilter, poc, replay, logrus, logging>>
graphVars == <<localEndpointFilter, poc, logrus, logging>>

SentView ==
    [IPSets |-> sentIPSets, Policies |-> sentPolicies, Profiles |-> sentProfiles,
     Endpoints |-> sentEndpoints, HostIPs |-> sentHostIPs, IPPools |-> sentIPPools]

(***************************************************************************)
(* Go maps, as functions on the set of keys present.                       *)
(***************************************************************************)
EmptyMap == [k \in {} |-> Nil]
MapPut(m, key, v) == [k \in (DOMAIN m) \cup {key} |-> IF k = key THEN v ELSE m[k]]
MapDelete(m, key) == [k \in (DOMAIN m) \ {key} |-> m[k]]

\* multidict.StringToIface
DiscardKey(md, key) == {p \in md : p[1] # key}
Values(md, key) == {p[2] : p \in {q \in md : q[1] = key}}
Keys(md) == {p[1] : p \in md}

\* The orders in which a Go map or set of these items can be iterated.
Perms(S) ==
    {s \in [1..Cardinality(S) -> S] : \A i, j \in 1..Cardinality(S) : i # j => s[i] # s[j]}

(***************************************************************************)
(* NewEventBuffer                                                          *)
(***************************************************************************)
\* No second sequencer: the first one has been given no call yet.
NoReplay ==
    [second |-> FALSE, calls |-> <<>>, results |-> <<>>, outs |-> <<>>, done |-> 0]

InitEventSequencer ==
    /\ pendingAddedIPSets = {}
    /\ pendingRemovedIPSets = {}
    /\ pendingAddedIPs = {}
    /\ pendingRemovedIPs = {}
    /\ pendingPolicyUpdates = EmptyMap
    /\ pendingPolicyDeletes = {}
    /\ pendingProfileUpdates = EmptyMap
    /\ pendingProfileDeletes = {}
    /\ pendingEndpointUpdates = EmptyMap
    /\ pendingEndpointTierUpdates = EmptyMap
    /\ pendingEndpointDeletes = {}
    /\ pendingHostIPUpdates = EmptyMap
    /\ pendingHostIPDeletes = {}
    /\ pendingIPPoolUpdates = EmptyMap
    /\ pendingIPPoolDeletes = {}
    /\ pendingNotReady = FALSE
    /\ pendingGlobalConfig = Nil
    /\ pendingHostConfig = Nil
    /\ sentIPSets = {}
    /\ sentPolicies = {}
    /\ sentProfiles = {}
    /\ sentEndpoints = {}
    /\ sentHostIPs = {}
    /\ sentIPPools = {}
    /\ fault = "none"
    /\ out = <<>>
    /\ lastOp = "Init"
    /\ prevFlush = "none"
    /\ sentBefore = SentView
    /\ notReadyCalled = FALSE
    /\ batch = <<>>
    /\ upstream = [IPSets |-> {}, Policies |-> EmptyMap, Profiles |-> EmptyMap,
                   Endpoints |-> EmptyMap, Scanned |-> {},
                   HostIPs |-> {}, IPPools |-> {}]
    /\ declared = [IPSets |-> {}, Policies |-> {}, Profiles |-> {}, Endpoints |-> {},
                  HostIPs |-> {}, IPPools |-> {}]
    /\ declaredBefore = [IPSets |-> {}, Policies |-> {}, Profiles |-> {}, Endpoints |-> {},
                  HostIPs |-> {}, IPPools |-> {}]
    /\ upMembers = [X \in SetIDs |-> {}]
    /\ downMembers = [X \in SetIDs |-> {}]
    /\ replay = NoReplay

\* api.Update, with the Go type of its key
Update(keyType, key, value) == [KeyType |-> keyType, Key |-> key, Value |-> value]
NoUpdate == Update("none", [Name |-> "none"], Nil)

\* &endpointHostnameFilter{hostname: hostname}; no update handled yet
NewEndpointHostnameFilter(hostname) ==
    [hostname |-> hostname, update |-> NoUpdate, filterOut |-> FALSE, delivered |-> <<>>,
     nested |-> "false"]

\* NewPolicySorter; no operation called yet
NewPolicySorter ==
    [tier |-> [Name |-> "default", Policies |-> EmptyMap, OrderedPolicies |-> <<>>],
     op |-> "New", dirty |-> FALSE]

\* NewEventBuffer, and NewCalculationGraph for the host "localhost"
\* log.AllLevels, from the least to the most verbose; a log.Level is the
\* place of its name in this list, counted from 0 (PanicLevel).
AllLevels == <<"panic", "fatal", "error", "warning", "info", "debug">>
Level(name) == (CHOOSE i \in 1..Len(AllLevels) : AllLevels[i] = name) - 1
\* logrus' standard logger before it is configured: level info, output to
\* stderr, logrus' text formatter, no hooks
StandardLogger ==
    [level |-> Level("info"), out |-> "os.Stderr", formatter |-> "TextFormatter",
     hooks |-> <<>>]
\* The severities of a configuration that sets none.
NoSeverities == [LogSeverityScreen |-> "", LogSeverityFile |-> "", LogSeveritySys |-> ""]
\* No logging function has been called.
NoLogging == [pc |-> "start", configParams |-> NoSeverities]

Init ==
    /\ InitEventSequencer
    /\ localEndpointFilter = NewEndpointHostnameFilter("localhost")
    /\ poc = NewPolicySorter
    /\ logrus = StandardLogger
    /\ logging = NoLogging

\* log.Panic: the process ends, the buffers are as they were.
Panic(msg) == fault' = msg /\ out' = <<>> /\ UNCHANGED bufVars

\* A callback that returns normally; no callback hands a message to Callback.
Returns == fault' = fault /\ out' = <<>>

(***************************************************************************)
(* IP set callbacks                                                        *)
(***************************************************************************)
\* OnIPSetAdded faulting on every sent set, a pending removal or not
OnIPSetAddedPanicsIfSent(setID) == setID \in sentIPSets

OnIPSetAddedPanics(setID) == setID \in sentIPSets /\ setID \notin pendingRemovedIPSets

\* OnIPSetAdded that leaves a pending removal of the set in place
OnIPSetAddedKeepsRemoval(setID) ==
    IF OnIPSetAddedPanics(setID)
    THEN Panic("OnIPSetAdded called for existing IP set")
    ELSE /\ pendingAddedIPSets' = pendingAddedIPSets \cup {setID}
         /\ pendingRemovedIPSets' = pendingRemovedIPSets
         /\ pendingAddedIPs' = DiscardKey(pendingAddedIPs, setID)
         /\ pendingRemovedIPs' = DiscardKey(pendingRemovedIPs, setID)
         /\ Returns
         /\ UNCHANGED <<policyPending, profilePending, endpointPending, hostIPPending,
                        ipPoolPending, pendingNotReady, configPending, sentVars>>

\* OnIPSetAdded that leaves the pending IPs of the set in place
OnIPSetAddedKeepsIPs(setID) ==
    IF OnIPSetAddedPanics(setID)
    THEN Panic("OnIPSetAdded called for existing IP set")
    ELSE /\ pendingAddedIPSets' = pendingAddedIPSets \cup {setID}
         /\ pendingRemovedIPSets' = pendingRemovedIPSets \ {setID}
         /\ pendingAddedIPs' = pendingAddedIPs
         /\ pendingRemovedIPs' = pendingRemovedIPs
         /\ Returns
         /\ UNCHANGED <<policyPending, profilePending, endpointPending, hostIPPending,
                        ipPoolPending, pendingNotReady, configPending, sentVars>>

OnIPSetAdded(setID) ==
    IF OnIPSetAddedPanics(setID)
    THEN Panic("OnIPSetAdded called for existing IP set")
    ELSE /\ pendingAddedIPSets' = pendingAddedIPSets \cup {setID}
         /\ pendingRemovedIPSets' = pendingRemovedIPSets \ {setID}
         /\ pendingAddedIPs' = DiscardKey(pendingAddedIPs, setID)
         /\ pendingRemovedIPs' = DiscardKey(pendingRemovedIPs, setID)
         /\ Returns
         /\ UNCHANGED <<policyPending, profilePending, endpointPending, hostIPPending,
                        ipPoolPending, pendingNotReady, configPending, sentVars>>

\* the unknown-set test looking at the sent sets only
UnknownIPSetIfUnsent(setID) == setID \notin sentIPSets

UnknownIPSet(setID) == setID \notin sentIPSets /\ setID \notin pendingAddedIPSets

\* OnIPSetRemoved that leaves a pending add of the set in place
OnIPSetRemovedKeepsAdd(setID) ==
    IF UnknownIPSet(setID)
    THEN Panic("IPSetRemoved called for unknown IP set")
    ELSE /\ pendingRemovedIPSets' =
                IF setID \in sentIPSets THEN pendingRemovedIPSets \cup {setID}
                ELSE pendingRemovedIPSets
         /\ pendingAddedIPSets' = pendingAddedIPSets
         /\ pendingAddedIPs' = DiscardKey(pendingAddedIPs, setID)
         /\ pendingRemovedIPs' = DiscardKey(pendingRemovedIPs, setID)
         /\ Returns
         /\ UNCHANGED <<policyPending, profilePending, endpointPending, hostIPPending,
                        ipPoolPending, pendingNotReady, configPending, sentVars>>

\* OnIPSetRemoved queueing the removal whether or not the set was sent
OnIPSetRemovedAlwaysQueues(setID) ==
    IF UnknownIPSet(setID)
    THEN Panic("IPSetRemoved called for unknown IP set")
    ELSE /\ pendingRemovedIPSets' = pendingRemovedIPSets \cup {setID}
         /\ pendingAddedIPSets' = pendingAddedIPSets \ {setID}
         /\ pendingAddedIPs' = DiscardKey(pendingAddedIPs, setID)
         /\ pendingRemovedIPs' = DiscardKey(pendingRemovedIPs, setID)
         /\ Returns
         /\ UNCHANGED <<policyPending, profilePending, endpointPending, hostIPPending,
                        ipPoolPending, pendingNotReady, configPending, sentVars>>

OnIPSetRemoved(setID) ==
    IF UnknownIPSet(setID)
    THEN Panic("IPSetRemoved called for unknown IP set")
    ELSE /\ pendingRemovedIPSets' =
                IF setID \in sentIPSets THEN pendingRemovedIPSets \cup {setID}
                ELSE pendingRemovedIPSets
         /\ pendingAddedIPSets' = pendingAddedIPSets \ {setID}
         /\ pendingAddedIPs' = DiscardKey(pendingAddedIPs, setID)
         /\ pendingRemovedIPs' = DiscardKey(pendingRemovedIPs, setID)
         /\ Returns
         /\ UNCHANGED <<policyPending, profilePending, endpointPending, hostIPPending,
                        ipPoolPending, pendingNotReady, configPending, sentVars>>

\* OnIPAdded that queues the add without looking at the pending removals
OnIPAddedNoCancel(setID, ip) ==
    IF UnknownIPSet(setID)
    THEN Panic("IP added to unknown IP set")
    ELSE /\ pendingAddedIPs' = pendingAddedIPs \cup {<<setID, ip>>}
         /\ pendingRemovedIPs' = pendingRemovedIPs
         /\ Returns
         /\ UNCHANGED <<pendingAddedIPSets, pendingRemovedIPSets, policyPending,
                        profilePending, endpointPending, hostIPPending, ipPoolPending,
                        pendingNotReady, configPending, sentVars>>

OnIPAdded(setID, ip) ==
    IF UnknownIPSet(setID)
    THEN Panic("IP added to unknown IP set")
    ELSE /\ IF <<setID, ip>> \in pendingRemovedIPs
            THEN /\ pendingRemovedIPs' = pendingRemovedIPs \ {<<setID, ip>>}
                 /\ pendingAddedIPs' = pendingAddedIPs
            ELSE /\ pendingAddedIPs' = pendingAddedIPs \cup {<<setID, ip>>}
                 /\ pendingRemovedIPs' = pendingRemovedIPs
         /\ Returns
         /\ UNCHANGED <<pendingAddedIPSets, pendingRemovedIPSets, policyPending,
                        profilePending, endpointPending, hostIPPending, ipPoolPending,
                        pendingNotReady, configPending, sentVars>>

\* OnIPRemoved that queues the removal without looking at the pending adds
OnIPRemovedNoCancel(setID, ip) ==
    IF UnknownIPSet(setID)
    THEN Panic("IP removed from unknown IP set")
    ELSE /\ pendingRemovedIPs' = pendingRemovedIPs \cup {<<setID, ip>>}
         /\ pendingAddedIPs' = pendingAddedIPs
         /\ Returns
         /\ UNCHANGED <<pendingAddedIPSets, pendingRemovedIPSets, policyPending,
                        profilePending, endpointPending, hostIPPending, ipPoolPending,
                        pendingNotReady, configPending, sentVars>>

OnIPRemoved(setID, ip) ==
    IF UnknownIPSet(setID)
    THEN Panic("IP removed from unknown IP set")
    ELSE /\ IF <<setID, ip>> \in pendingAddedIPs
            THEN /\ pendingAddedIPs' = pendingAddedIPs \ {<<setID, ip>>}
                 /\ pendingRemovedIPs' = pendingRemovedIPs
            ELSE /\ pendingRemovedIPs' = pendingRemovedIPs \cup {<<setID, ip>>}
                 /\ pendingAddedIPs' = pendingAddedIPs
         /\ Returns
         /\ UNCHANGED <<pendingAddedIPSets, pendingRemovedIPSets, policyPending,
                        profilePending, endpointPending, hostIPPending, ipPoolPending,
                        pendingNotReady, configPending, sentVars>>

(***************************************************************************)
(* Ready flag and configuration callbacks                                  *)
(***************************************************************************)
OnDatastoreNotReady ==
    /\ pendingNotReady' = TRUE
    /\ Returns
    /\ UNCHANGED <<ipSetPending, policyPending, profilePending, endpointPending,
                   hostIPPending, ipPoolPending, configPending, sentVars>>

OnConfigUpdate(globalConfig, hostConfig) ==
    /\ pendingGlobalConfig' = globalConfig
    /\ pendingHostConfig' = hostConfig
    /\ Returns
    /\ UNCHANGED <<ipSetPending, policyPending, profilePending, endpointPending,
                   hostIPPending, ipPoolPending, pendingNotReady, sentVars>>

(***************************************************************************)
(* Policy and profile callbacks                                            *)
(***************************************************************************)
\* OnPolicyActive that leaves a pending delete of the key in place
OnPolicyActiveKeepsDelete(key, rules) ==
    /\ pendingPolicyDeletes' = pendingPolicyDeletes
    /\ pendingPolicyUpdates' = MapPut(pendingPolicyUpdates, key, rules)
    /\ Returns
    /\ UNCHANGED <<ipSetPending, profilePending, endpointPending, hostIPPending,
                   ipPoolPending, pendingNotReady, configPending, sentVars>>

OnPolicyActive(key, rules) ==
    /\ pendingPolicyDeletes' = pendingPolicyDeletes \ {key}
    /\ pendingPolicyUpdates' = MapPut(pendingPolicyUpdates, key, rules)
    /\ Returns
    /\ UNCHANGED <<ipSetPending, profilePending, endpointPending, hostIPPending,
                   ipPoolPending, pendingNotReady, configPending, sentVars>>

\* OnPolicyInactive queueing the delete whether or not the policy was sent
OnPolicyInactiveAlwaysDeletes(key) ==
    /\ pendingPolicyUpdates' = MapDelete(pendingPolicyUpdates, key)
    /\ pendingPolicyDeletes' = pendingPolicyDeletes \cup {key}
    /\ Returns
    /\ UNCHANGED <<ipSetPending, profilePending, endpointPending, hostIPPending,
                   ipPoolPending, pendingNotReady, configPending, sentVars>>

OnPolicyInactive(key) ==
    /\ pendingPolicyUpdates' = MapDelete(pendingPolicyUpdates, key)
    /\ pendingPolicyDeletes' =
            IF key \in sentPolicies THEN pendingPolicyDeletes \cup {key}
            ELSE pendingPolicyDeletes
    /\ Returns
    /\ UNCHANGED <<ipSetPending, profilePending, endpointPending, hostIPPending,
                   ipPoolPending, pendingNotReady, configPending, sentVars>>

OnProfileActive(key, rules) ==
    /\ pendingProfileDeletes' = pendingProfileDeletes \ {key}
    /\ pendingProfileUpdates' = MapPut(pendingProfileUpdates, key, rules)
    /\ Returns
    /\ UNCHANGED <<ipSetPending, policyPending, endpointPending, hostIPPending,
                   ipPoolPending, pendingNotReady, configPending, sentVars>>

OnProfileInactive(key) ==
    /\ pendingProfileUpdates' = MapDelete(pendingProfileUpdates, key)
    /\ pendingProfileDeletes' =
            IF key \in sentProfiles THEN pendingProfileDeletes \cup {key}
            ELSE pendingProfileDeletes
    /\ Returns
    /\ UNCHANGED <<ipSetPending, policyPending, endpointPending, hostIPPending,
                   ipPoolPending, pendingNotReady, configPending, sentVars>>

(***************************************************************************)
(* Endpoint callback                                                       *)
(***************************************************************************)
OnEndpointTierUpdate(key, endpoint, filteredTiers) ==
    /\ IF endpoint = NilEndpoint
       THEN /\ pendingEndpointUpdates' = MapDelete(pendingEndpointUpdates, key)
            /\ pendingEndpointTierUpdates' = MapDelete(pendingEndpointTierUpdates, key)
            /\ pendingEndpointDeletes' =
                    IF key \in sentEndpoints THEN pendingEndpointDeletes \cup {key}
                    ELSE pendingEndpointDeletes
       ELSE /\ pendingEndpointDeletes' = pendingEndpointDeletes \ {key}
            /\ pendingEndpointUpdates' = MapPut(pendingEndpointUpdates, key, endpoint)
            /\ pendingEndpointTierUpdates' =
                    MapPut(pendingEndpointTierUpdates, key, filteredTiers)
    /\ Returns
    /\ UNCHANGED <<ipSetPending, policyPending, profilePending, hostIPPending,
                   ipPoolPending, pendingNotReady, configPending, sentVars>>

(***************************************************************************)
(* Host IP callbacks                                                       *)
(***************************************************************************)
OnHostIPUpdate(hostname, ip) ==
    /\ pendingHostIPDeletes' = pendingHostIPDeletes \ {hostname}
    /\ pendingHostIPUpdates' = MapPut(pendingHostIPUpdates, hostname, ip)
    /\ Returns
    /\ UNCHANGED <<ipSetPending, policyPending, profilePending, endpointPending,
                   ipPoolPending, pendingNotReady, configPending, sentVars>>

\* OnHostIPRemove that queues a delete whether or not the host IP was sent
OnHostIPRemoveAlwaysDeletes(hostname) ==
    /\ pendingHostIPUpdates' = MapDelete(pendingHostIPUpdates, hostname)
    /\ pendingHostIPDeletes' = pendingHostIPDeletes \cup {hostname}
    /\ Returns
    /\ UNCHANGED <<ipSetPending, policyPending, profilePending, endpointPending,
                   ipPoolPending, pendingNotReady, configPending, sentVars>>

\* OnHostIPRemove that forgets a sent host IP at once instead of at the flush
OnHostIPRemoveForgets(hostname) ==
    /\ pendingHostIPUpdates' = MapDelete(pendingHostIPUpdates, hostname)
    /\ pendingHostIPDeletes' = pendingHostIPDeletes
    /\ sentHostIPs' = sentHostIPs \ {hostname}
    /\ Returns
    /\ UNCHANGED <<ipSetPending, policyPending, profilePending, endpointPending,
                   ipPoolPending, pendingNotReady, configPending,
                   sentIPSets, sentPolicies, sentProfiles, sentEndpoints, sentIPPools>>

OnHostIPRemove(hostname) ==
    /\ pendingHostIPUpdates' = MapDelete(pendingHostIPUpdates, hostname)
    /\ pendingHostIPDeletes' =
            IF hostname \in sentHostIPs THEN pendingHostIPDeletes \cup {hostname}
            ELSE pendingHostIPDeletes
    /\ Returns
    /\ UNCHANGED <<ipSetPending, policyPending, profilePending, endpointPending,
                   ipPoolPending, pendingNotReady, configPending, sentVars>>
(***************************************************************************)
(* IP pool callbacks                                                       *)
(***************************************************************************)
\* ip.CIDRFromCalicoNet: the pool's network as an ip.CIDR value
CIDRFromCalicoNet(n) == [type |-> "ip.CIDR", addr |-> n[1], prefix |-> n[2]]
CIDRString(c) == <<c.addr, "/", c.prefix>>
\* strings.Replace(cidr.String(), "/", "-", 1)
cidrToIPPoolID(c) == <<c.addr, "-", c.prefix>>
PoolCIDRs == {CIDRFromCalicoNet(n) : n \in PoolNets}

\* Equality of two interface{} items of a set.Set: same dynamic type, same value.
SameItem(x, y) == x.type = y.type /\ x = y
\* set.Set.Discard: delete(map, item)
Discard(S, item) == {x \in S : ~SameItem(x, item)}
\* A map key must be hashable.  model.IPPoolKey wraps a net.IPNet, whose IP and
\* Mask are byte slices; whether deleting such a key from a non-empty map panics
\* ("hash of unhashable type") or finds no equal item depends on the types the
\* build links, so both outcomes are kept.  Deleting from an empty map returns.
Hashable(item) == item.type # "model.IPPoolKey"
DiscardMayPanic(S, item) == S # {} /\ ~Hashable(item)

\* The item OnIPPoolUpdate discards from pendingIPPoolDeletes: the key it was
\* given, not the converted CIDR.
OnIPPoolUpdateDiscarded(key) == key

OnIPPoolUpdate(key, pool) ==
    \/ /\ DiscardMayPanic(pendingIPPoolDeletes, OnIPPoolUpdateDiscarded(key))
       /\ Panic("hash of unhashable type model.IPPoolKey")
    \/ /\ pendingIPPoolDeletes' = Discard(pendingIPPoolDeletes, OnIPPoolUpdateDiscarded(key))
       /\ pendingIPPoolUpdates' =
               MapPut(pendingIPPoolUpdates, CIDRFromCalicoNet(key.CIDR), pool)
       /\ Returns
       /\ UNCHANGED <<ipSetPending, policyPending, profilePending, endpointPending,
                      hostIPPending, pendingNotReady, configPending, sentVars>>

OnIPPoolRemove(key) ==
    LET cidr == CIDRFromCalicoNet(key.CIDR) IN
    /\ pendingIPPoolUpdates' = MapDelete(pendingIPPoolUpdates, cidr)
    /\ pendingIPPoolDeletes' =
            IF cidr \in sentIPPools THEN pendingIPPoolDeletes \cup {cidr}
            ELSE pendingIPPoolDeletes
    /\ Returns
    /\ UNCHANGED <<ipSetPending, policyPending, profilePending, endpointPending,
                   hostIPPending, pendingNotReady, configPending, sentVars>>
(***************************************************************************)
(* Messages handed to the downstream Callback.                             *)
(***************************************************************************)
Msg(type, id, members, added, removed, body) ==
    [type |-> type, id |-> id, members |-> members, added |-> added,
     removed |-> removed, body |-> body]

\* ip.Addr.String()
AddrString(a) == <<10, 0, 0, a>>
AddrStrings(A) == {AddrString(a) : a \in A}

\* The addresses a message's list of strings holds; the list holds each address
\* of S, once.
Listed(list) == {list[i] : i \in 1..Len(list)}
Lists(list, S) == Listed(list) = S /\ Len(list) = Cardinality(S)

\* Iter of a multidict's values for each of the keys: for each key, the order in
\* which its map of values is iterated, the addresses as strings.
IterOrders(md, keys) ==
    LET lists == UNION {Perms(AddrStrings(Values(md, k))) : k \in keys}
    IN  {f \in [keys -> lists] : \A k \in keys : f[k] \in Perms(AddrStrings(Values(md, k)))}

PolicyID(key) == [Tier |-> "default", Name |-> key.Name]
ProfileID(key) == [Name |-> key.Name]
WorkloadEndpointID(key) ==
    [OrchestratorId |-> key.OrchestratorID, WorkloadId |-> key.WorkloadID,
     EndpointId |-> key.EndpointID]
HostEndpointID(key) == [EndpointId |-> key.EndpointID]
EndpointID(key) ==
    IF key.kind = "WorkloadEndpointKey" THEN WorkloadEndpointID(key) ELSE HostEndpointID(key)

DatastoreNotReady == Msg("DatastoreNotReady", Nil, <<>>, <<>>, <<>>, Nil)
ConfigUpdate(rawConfig) == Msg("ConfigUpdate", Nil, <<>>, <<>>, <<>>, rawConfig)
IPSetUpdate(id, members) == Msg("IPSetUpdate", id, members, <<>>, <<>>, Nil)
IPSetDeltaUpdate(id, added, removed) ==
    Msg("IPSetDeltaUpdate", id, <<>>, added, removed, Nil)
IPSetRemove(id) == Msg("IPSetRemove", id, <<>>, <<>>, <<>>, Nil)
ActivePolicyUpdate(key, rules) ==
    Msg("ActivePolicyUpdate", PolicyID(key), <<>>, <<>>, <<>>,
        [ipSets |-> rules.ipSets, Untracked |-> rules.Untracked])
ActivePolicyRemove(key) == Msg("ActivePolicyRemove", PolicyID(key), <<>>, <<>>, <<>>, Nil)
ActiveProfileUpdate(key, rules) ==
    Msg("ActiveProfileUpdate", ProfileID(key), <<>>, <<>>, <<>>, [ipSets |-> rules.ipSets])
ActiveProfileRemove(key) == Msg("ActiveProfileRemove", ProfileID(key), <<>>, <<>>, <<>>, Nil)
HostMetadataUpdate(hostname, ip) ==
    Msg("HostMetadataUpdate", hostname, <<>>, <<>>, <<>>, AddrString(ip))
HostMetadataRemove(hostname) == Msg("HostMetadataRemove", hostname, <<>>, <<>>, <<>>, Nil)
IPAMPoolUpdate(cidr, pool) ==
    Msg("IPAMPoolUpdate", cidrToIPPoolID(cidr), <<>>, <<>>, <<>>,
        [Cidr |-> <<pool.CIDR[1], "/", pool.CIDR[2]>>, Masquerade |-> pool.Masquerade])
IPAMPoolRemove(cidr) == Msg("IPAMPoolRemove", cidrToIPPoolID(cidr), <<>>, <<>>, <<>>, Nil)

\* The names of the policies of one tier that have the given do-not-track flag,
\* in the order of OrderedPolicies.
PolNames(orderedPolicies, doNotTrack) ==
    LET Wanted(p) == p.DoNotTrack = doNotTrack
        sel == SelectSeq(orderedPolicies, Wanted)
    IN  [i \in 1..Len(sel) |-> sel[i].Key.Name]

ProtoTiers(filteredTiers, doNotTrack) ==
    LET all == [i \in 1..Len(filteredTiers) |->
                    [Name |-> filteredTiers[i].Name,
                     Policies |-> PolNames(filteredTiers[i].OrderedPolicies, doNotTrack)]]
        NonEmpty(t) == Len(t.Policies) > 0
    IN  SelectSeq(all, NonEmpty)

\* tierInfoToProtoTierInfo putting every policy in the tracked list
tierInfoToProtoTierInfoAllTracked(filteredTiers) ==
    [trackedTiers |-> ProtoTiers(filteredTiers, FALSE) \o ProtoTiers(filteredTiers, TRUE),
     untrackedTiers |-> <<>>]

tierInfoToProtoTierInfo(filteredTiers) ==
    [trackedTiers |-> ProtoTiers(filteredTiers, FALSE),
     untrackedTiers |-> ProtoTiers(filteredTiers, TRUE)]

ModelWorkloadEndpointToProto(ep, tiers) ==
    [ProfileIds |-> ep.ProfileIDs, Tiers |-> tiers, UntrackedTiers |-> <<>>]
ModelHostEndpointToProto(ep, tiers, untrackedTiers) ==
    [ProfileIds |-> ep.ProfileIDs, Tiers |-> tiers, UntrackedTiers |-> untrackedTiers]

\* EndpointUpdate handing a workload endpoint the untracked tiers after the
\* tracked ones
EndpointUpdateUntrackedToWorkload(key, endpoint, filteredTiers) ==
    LET t == tierInfoToProtoTierInfo(filteredTiers) IN
    IF key.kind = "WorkloadEndpointKey"
    THEN Msg("WorkloadEndpointUpdate", WorkloadEndpointID(key), <<>>, <<>>, <<>>,
             ModelWorkloadEndpointToProto(endpoint, t.trackedTiers \o t.untrackedTiers))
    ELSE Msg("HostEndpointUpdate", HostEndpointID(key), <<>>, <<>>, <<>>,
             ModelHostEndpointToProto(endpoint, t.trackedTiers, t.untrackedTiers))

EndpointUpdate(key, endpoint, filteredTiers) ==
    LET t == tierInfoToProtoTierInfo(filteredTiers) IN
    IF key.kind = "WorkloadEndpointKey"
    THEN Msg("WorkloadEndpointUpdate", WorkloadEndpointID(key), <<>>, <<>>, <<>>,
             ModelWorkloadEndpointToProto(endpoint, t.trackedTiers))
    ELSE Msg("HostEndpointUpdate", HostEndpointID(key), <<>>, <<>>, <<>>,
             ModelHostEndpointToProto(endpoint, t.trackedTiers, t.untrackedTiers))
EndpointRemove(key) ==
    IF key.kind = "WorkloadEndpointKey"
    THEN Msg("WorkloadEndpointRemove", WorkloadEndpointID(key), <<>>, <<>>, <<>>, Nil)
    ELSE Msg("HostEndpointRemove", HostEndpointID(key), <<>>, <<>>, <<>>, Nil)

(***************************************************************************)
(* The flush steps.  Each takes the order in which its map or set is       *)
(* iterated and gives the messages it emits, in that order.                *)
(***************************************************************************)
flushReadyFlag == IF pendingNotReady THEN <<DatastoreNotReady>> ELSE <<>>

\* config.UpdateFrom is called for the global and then the per-host source; each
\* call reports (changed, err).  The results are the configuration module's.
UpdateFromResults == {"changed", "unchanged", "err"}
RawValues(globalConfig, hostConfig) == [global |-> globalConfig, host |-> hostConfig]

\* flushConfigUpdate sending a ConfigUpdate only if the global source changed
flushConfigUpdateWithGlobalOnly(g, h) ==
    IF g = "err" \/ h = "err"
    THEN [fatal |-> TRUE, msgs |-> <<>>, cleared |-> FALSE]
    ELSE [fatal |-> FALSE,
          msgs |-> IF g = "changed"
                   THEN <<ConfigUpdate(RawValues(pendingGlobalConfig, pendingHostConfig))>>
                   ELSE <<>>,
          cleared |-> TRUE]

\* flushConfigUpdate, for the results g and h of the two UpdateFrom calls
flushConfigUpdateWith(g, h) ==
    IF g = "err" \/ h = "err"
    THEN [fatal |-> TRUE, msgs |-> <<>>, cleared |-> FALSE]
    ELSE [fatal |-> FALSE,
          msgs |-> IF g = "changed" \/ h = "changed"
                   THEN <<ConfigUpdate(RawValues(pendingGlobalConfig, pendingHostConfig))>>
                   ELSE <<>>,
          cleared |-> TRUE]

\* flushConfigUpdate: what it can do in the current state
\* flushConfigUpdate that goes on when only the host configuration is pending
flushConfigUpdateHostAlone ==
    IF pendingGlobalConfig = Nil /\ pendingHostConfig = Nil
    THEN {[fatal |-> FALSE, msgs |-> <<>>, cleared |-> FALSE]}
    ELSE {flushConfigUpdateWith(g, h) : g \in UpdateFromResults, h \in UpdateFromResults}

flushConfigUpdate ==
    IF pendingGlobalConfig = Nil
    THEN {[fatal |-> FALSE, msgs |-> <<>>, cleared |-> FALSE]}
    ELSE {flushConfigUpdateWith(g, h) : g \in UpdateFromResults, h \in UpdateFromResults}

\* flushAddedIPSets that stops the iteration of a set's IPs after the first
flushAddedIPSetsFirstMember(order, iter) ==
    [i \in 1..Len(order) |->
        IPSetUpdate(order[i], IF iter[order[i]] = <<>> THEN <<>>
                              ELSE <<Head(iter[order[i]])>>)]

\* flushAddedIPSets: one IPSetUpdate for each added set, in the order the set of
\* ids is iterated; its members are appended as pendingAddedIPs iterates them.
flushAddedIPSets(order, iter) ==
    [i \in 1..Len(order) |-> IPSetUpdate(order[i], iter[order[i]])]

\* pendingAddedIPs once flushAddedIPSets has discarded the keys of the added sets
AddedIPsAfterAdds == {p \in pendingAddedIPs : p[1] \notin pendingAddedIPSets}

\* flushIPSetDeltas iterates the keys of pendingRemovedIPs, then the keys left
\* in pendingAddedIPs; flushAddsOrRemoves discards the key from both.
DeltaKeysRemoved == Keys(pendingRemovedIPs)
\* DeltaKeysAdded had the first iteration not discarded its keys
DeltaKeysAddedAll == Keys(AddedIPsAfterAdds)
DeltaKeysAdded == Keys(AddedIPsAfterAdds) \ DeltaKeysRemoved

\* flushAddsOrRemoves: the added and the removed members are appended as the
\* two multidicts iterate them
flushAddsOrRemoves(setID, iterAdded, iterRemoved) ==
    IPSetDeltaUpdate(setID, iterAdded[setID], iterRemoved[setID])

flushIPSetDeltas(orderRemoved, orderAdded, iterAdded, iterRemoved) ==
    LET order == orderRemoved \o orderAdded
    IN  [i \in 1..Len(order) |-> flushAddsOrRemoves(order[i], iterAdded, iterRemoved)]

flushPolicyUpdates(order) ==
    [i \in 1..Len(order) |-> ActivePolicyUpdate(order[i], pendingPolicyUpdates[order[i]])]
flushProfileUpdates(order) ==
    [i \in 1..Len(order) |-> ActiveProfileUpdate(order[i], pendingProfileUpdates[order[i]])]
flushEndpointTierUpdates(order) ==
    [i \in 1..Len(order) |->
        EndpointUpdate(order[i], pendingEndpointUpdates[order[i]],
                       pendingEndpointTierUpdates[order[i]])]
flushEndpointTierDeletes(order) == [i \in 1..Len(order) |-> EndpointRemove(order[i])]
flushProfileDeletes(order) == [i \in 1..Len(order) |-> ActiveProfileRemove(order[i])]
flushPolicyDeletes(order) == [i \in 1..Len(order) |-> ActivePolicyRemove(order[i])]
flushRemovedIPSets(order) == [i \in 1..Len(order) |-> IPSetRemove(order[i])]
flushHostIPDeletes(order) == [i \in 1..Len(order) |-> HostMetadataRemove(order[i])]
flushHostIPUpdates(order) ==
    [i \in 1..Len(order) |-> HostMetadataUpdate(order[i], pendingHostIPUpdates[order[i]])]
flushIPPoolDeletes(order) == [i \in 1..Len(order) |-> IPAMPoolRemove(order[i])]
flushIPPoolUpdates(order) ==
    [i \in 1..Len(order) |-> IPAMPoolUpdate(order[i], pendingIPPoolUpdates[order[i]])]

\* Flush with the policy updates flushed before the IP sets they reference.
FlushSequencePoliciesFirst(ready, config, addedIPSets, ipSetDeltas, policyUpdates, profileUpdates, endpointUpdates, endpointDeletes, profileDeletes, policyDeletes, removedIPSets, hostIPDeletes, hostIPUpdates, ipPoolDeletes, ipPoolUpdates) ==
    ready \o config
    \o policyUpdates \o addedIPSets \o ipSetDeltas \o profileUpdates \o endpointUpdates
    \o endpointDeletes \o profileDeletes \o policyDeletes \o removedIPSets
    \o hostIPDeletes \o hostIPUpdates \o ipPoolDeletes \o ipPoolUpdates

\* Flush with the removals in the order of the additions, not reversed.
FlushSequenceRemovalsForward(ready, config, addedIPSets, ipSetDeltas, policyUpdates, profileUpdates, endpointUpdates, endpointDeletes, profileDeletes, policyDeletes, removedIPSets, hostIPDeletes, hostIPUpdates, ipPoolDeletes, ipPoolUpdates) ==
    ready \o config
    \o addedIPSets \o ipSetDeltas \o policyUpdates \o profileUpdates \o endpointUpdates
    \o removedIPSets \o policyDeletes \o profileDeletes \o endpointDeletes
    \o hostIPDeletes \o hostIPUpdates \o ipPoolDeletes \o ipPoolUpdates

\* Flush with the endpoint updates flushed before the policies and profiles.
FlushSequenceEndpointsFirst(ready, config, addedIPSets, ipSetDeltas, policyUpdates, profileUpdates, endpointUpdates, endpointDeletes, profileDeletes, policyDeletes, removedIPSets, hostIPDeletes, hostIPUpdates, ipPoolDeletes, ipPoolUpdates) ==
    ready \o config
    \o addedIPSets \o ipSetDeltas \o endpointUpdates \o policyUpdates \o profileUpdates
    \o endpointDeletes \o profileDeletes \o policyDeletes \o removedIPSets
    \o hostIPDeletes \o hostIPUpdates \o ipPoolDeletes \o ipPoolUpdates

\* Flush with the configuration flushed after the mainline updates.
FlushSequenceConfigLate(ready, config, addedIPSets, ipSetDeltas, policyUpdates, profileUpdates, endpointUpdates, endpointDeletes, profileDeletes, policyDeletes, removedIPSets, hostIPDeletes, hostIPUpdates, ipPoolDeletes, ipPoolUpdates) ==
    ready
    \o addedIPSets \o ipSetDeltas \o policyUpdates \o profileUpdates \o endpointUpdates
    \o config
    \o endpointDeletes \o profileDeletes \o policyDeletes \o removedIPSets
    \o hostIPDeletes \o hostIPUpdates \o ipPoolDeletes \o ipPoolUpdates

\* Flush with the IP-pool steps run before the host-IP steps.
FlushSequencePoolsFirst(ready, config, addedIPSets, ipSetDeltas, policyUpdates, profileUpdates, endpointUpdates, endpointDeletes, profileDeletes, policyDeletes, removedIPSets, hostIPDeletes, hostIPUpdates, ipPoolDeletes, ipPoolUpdates) ==
    ready \o config
    \o addedIPSets \o ipSetDeltas \o policyUpdates \o profileUpdates \o endpointUpdates
    \o endpointDeletes \o profileDeletes \o policyDeletes \o removedIPSets
    \o ipPoolDeletes \o ipPoolUpdates \o hostIPDeletes \o hostIPUpdates

\* The order in which Flush runs the steps.
FlushSequence(ready, config, addedIPSets, ipSetDeltas, policyUpdates, profileUpdates, endpointUpdates, endpointDeletes, profileDeletes, policyDeletes, removedIPSets, hostIPDeletes, hostIPUpdates, ipPoolDeletes, ipPoolUpdates) ==
    ready \o config
    \o addedIPSets \o ipSetDeltas \o policyUpdates \o profileUpdates \o endpointUpdates
    \o endpointDeletes \o profileDeletes \o policyDeletes \o removedIPSets
    \o hostIPDeletes \o hostIPUpdates \o ipPoolDeletes \o ipPoolUpdates

\* flushConfigUpdate leaving the pending configuration in place
ConfigAfterFlushKept(cleared) == <<pendingGlobalConfig, pendingHostConfig>>

\* The pending configuration after flushConfigUpdate
ConfigAfterFlush(cleared) ==
    IF cleared THEN <<Nil, Nil>> ELSE <<pendingGlobalConfig, pendingHostConfig>>

\* The IP deltas left pending after flushIPSetDeltas and flushRemovedIPSets
IPsAfterFlush == [added |-> {}, removed |-> {}]

(***************************************************************************)
(* Flush                                                                   *)
(***************************************************************************)
\* Flush, for what flushConfigUpdate does
FlushWith(cfg) ==
      IF cfg.fatal
      THEN \* log.Fatal: the process exits after the ready flag was flushed
           /\ out' = flushReadyFlag
           /\ fault' = "Failed to parse config update"
           /\ pendingNotReady' = FALSE
           /\ UNCHANGED <<ipSetPending, policyPending, profilePending, endpointPending,
                          hostIPPending, ipPoolPending, configPending, sentVars>>
      ELSE
        \E oAdd \in Perms(pendingAddedIPSets),
           iAdd \in IterOrders(pendingAddedIPs, pendingAddedIPSets),
           oDelR \in Perms(DeltaKeysRemoved),
           oDelA \in Perms(DeltaKeysAdded),
           iDelA \in IterOrders(AddedIPsAfterAdds, DeltaKeysRemoved \cup DeltaKeysAdded),
           iDelR \in IterOrders(pendingRemovedIPs, DeltaKeysRemoved \cup DeltaKeysAdded),
           oPolU \in Perms(DOMAIN pendingPolicyUpdates),
           oProfU \in Perms(DOMAIN pendingProfileUpdates),
           oEpU \in Perms(DOMAIN pendingEndpointUpdates),
           oEpD \in Perms(pendingEndpointDeletes),
           oProfD \in Perms(pendingProfileDeletes),
           oPolD \in Perms(pendingPolicyDeletes),
           oRem \in Perms(pendingRemovedIPSets),
           oHipD \in Perms(pendingHostIPDeletes),
           oHipU \in Perms(DOMAIN pendingHostIPUpdates),
           oPoolD \in Perms(pendingIPPoolDeletes),
           oPoolU \in Perms(DOMAIN pendingIPPoolUpdates) :
          /\ out' = FlushSequence(flushReadyFlag, cfg.msgs,
                        flushAddedIPSets(oAdd, iAdd),
                        flushIPSetDeltas(oDelR, oDelA, iDelA, iDelR),
                        flushPolicyUpdates(oPolU), flushProfileUpdates(oProfU),
                        flushEndpointTierUpdates(oEpU), flushEndpointTierDeletes(oEpD),
                        flushProfileDeletes(oProfD), flushPolicyDeletes(oPolD),
                        flushRemovedIPSets(oRem),
                        flushHostIPDeletes(oHipD), flushHostIPUpdates(oHipU),
                        flushIPPoolDeletes(oPoolD), flushIPPoolUpdates(oPoolU))
          /\ fault' = fault
          /\ pendingNotReady' = FALSE
          /\ pendingGlobalConfig' = ConfigAfterFlush(cfg.cleared)[1]
          /\ pendingHostConfig' = ConfigAfterFlush(cfg.cleared)[2]
          /\ pendingAddedIPSets' = {}
          /\ pendingRemovedIPSets' = {}
          /\ pendingAddedIPs' = IPsAfterFlush.added
          /\ pendingRemovedIPs' = IPsAfterFlush.removed
          /\ sentIPSets' = (sentIPSets \cup pendingAddedIPSets) \ pendingRemovedIPSets
          /\ pendingPolicyUpdates' = EmptyMap
          /\ pendingPolicyDeletes' = {}
          /\ sentPolicies' = (sentPolicies \cup DOMAIN pendingPolicyUpdates)
                                \ pendingPolicyDeletes
          /\ pendingProfileUpdates' = EmptyMap
          /\ pendingProfileDeletes' = {}
          /\ sentProfiles' = (sentProfiles \cup DOMAIN pendingProfileUpdates)
                                \ pendingProfileDeletes
          /\ pendingEndpointUpdates' = EmptyMap
          /\ pendingEndpointTierUpdates' = EmptyMap
          /\ pendingEndpointDeletes' = {}
          /\ sentEndpoints' = (sentEndpoints \cup DOMAIN pendingEndpointUpdates)
                                \ pendingEndpointDeletes
          /\ pendingHostIPUpdates' = EmptyMap
          /\ pendingHostIPDeletes' = {}
          /\ sentHostIPs' = (sentHostIPs \ pendingHostIPDeletes)
                                \cup DOMAIN pendingHostIPUpdates
          /\ pendingIPPoolUpdates' = EmptyMap
          /\ pendingIPPoolDeletes' = {}
          /\ sentIPPools' = (sentIPPools \ pendingIPPoolDeletes)
                                \cup DOMAIN pendingIPPoolUpdates

Flush == \E cfg \in flushConfigUpdate : FlushWith(cfg)

(***************************************************************************)
(* History variables: what was called and flushed.                         *)
(***************************************************************************)
\* A callback was called; the call is not recorded in batch.
\* The calculation graph's state after a callback: the IP sets, policies,
\* profiles, endpoints, host IPs and IP pools it holds active, with the values
\* it last passed.
Upstream(up, call) ==
    CASE call[1] = "OnIPSetAdded" -> [up EXCEPT !.IPSets = @ \cup {call[2]}]
      [] call[1] = "OnIPSetRemoved" -> [up EXCEPT !.IPSets = @ \ {call[2]}]
      [] call[1] = "OnPolicyActive" -> [up EXCEPT !.Policies = MapPut(@, call[2], call[3])]
      [] call[1] = "OnPolicyInactive" -> [up EXCEPT !.Policies = MapDelete(@, call[2])]
      [] call[1] = "OnProfileActive" -> [up EXCEPT !.Profiles = MapPut(@, call[2], call[3])]
      [] call[1] = "OnProfileInactive" -> [up EXCEPT !.Profiles = MapDelete(@, call[2])]
      [] call[1] = "OnEndpointTierUpdate" ->
            IF call[3] = NilEndpoint
            THEN [up EXCEPT !.Endpoints = MapDelete(@, call[2])]
            ELSE [up EXCEPT !.Endpoints =
                        MapPut(@, call[2], [endpoint |-> call[3], tiers |-> call[4]])]
      [] call[1] \in {"OnSelectorActive", "OnTagActive"} ->
            [up EXCEPT !.Scanned = @ \cup {<<call[1], call[2]>>}]
      [] call[1] = "OnSelectorInactive" ->
            [up EXCEPT !.Scanned = @ \ {<<"OnSelectorActive", call[2]>>}]
      [] call[1] = "OnTagInactive" ->
            [up EXCEPT !.Scanned = @ \ {<<"OnTagActive", call[2]>>}]
      [] call[1] = "OnHostIPUpdate" -> [up EXCEPT !.HostIPs = @ \cup {call[2]}]
      [] call[1] = "OnHostIPRemove" -> [up EXCEPT !.HostIPs = @ \ {call[2]}]
      [] call[1] = "OnIPPoolUpdate" -> [up EXCEPT !.IPPools = @ \cup {call[2]}]
      [] call[1] = "OnIPPoolRemove" -> [up EXCEPT !.IPPools = @ \ {call[2]}]
      [] OTHER -> up

\* What the receiver of the messages holds declared after a message.
Receive(d, m) ==
    CASE m.type = "IPSetUpdate" -> [d EXCEPT !.IPSets = @ \cup {m.id}]
      [] m.type = "IPSetRemove" -> [d EXCEPT !.IPSets = @ \ {m.id}]
      [] m.type = "ActivePolicyUpdate" -> [d EXCEPT !.Policies = @ \cup {m.id}]
      [] m.type = "ActivePolicyRemove" -> [d EXCEPT !.Policies = @ \ {m.id}]
      [] m.type = "ActiveProfileUpdate" -> [d EXCEPT !.Profiles = @ \cup {m.id}]
      [] m.type = "ActiveProfileRemove" -> [d EXCEPT !.Profiles = @ \ {m.id}]
      [] m.type \in {"WorkloadEndpointUpdate", "HostEndpointUpdate"} ->
            [d EXCEPT !.Endpoints = @ \cup {m.id}]
      [] m.type \in {"WorkloadEndpointRemove", "HostEndpointRemove"} ->
            [d EXCEPT !.Endpoints = @ \ {m.id}]
      [] m.type = "HostMetadataUpdate" -> [d EXCEPT !.HostIPs = @ \cup {m.id}]
      [] m.type = "HostMetadataRemove" -> [d EXCEPT !.HostIPs = @ \ {m.id}]
      [] m.type = "IPAMPoolUpdate" -> [d EXCEPT !.IPPools = @ \cup {m.id}]
      [] m.type = "IPAMPoolRemove" -> [d EXCEPT !.IPPools = @ \ {m.id}]
      [] OTHER -> d
RECURSIVE Deliver(_, _)
Deliver(d, msgs) ==
    IF msgs = <<>> THEN d ELSE Deliver(Receive(d, Head(msgs)), Tail(msgs))

CalledHistory(call) ==
    /\ UNCHANGED graphVars
    /\ upstream' = Upstream(upstream, call)
    /\ declared' = declared
    /\ declaredBefore' = declared
    /\ lastOp' = "On"
    /\ prevFlush' = "none"
    /\ sentBefore' = SentView
    /\ notReadyCalled' = (call[1] = "OnDatastoreNotReady"
                          \/ (lastOp # "Flush" /\ notReadyCalled))
Called(call) == CalledHistory(call) /\ UNCHANGED <<upMembers, downMembers, replay>>

\* There is room to record one more call in the batch.
Room(max) == lastOp = "Flush" \/ Len(batch) < max
\* A callback was called and is recorded; the first call after a flush starts a
\* new batch.
Recorded(call) ==
    /\ Called(call)
    /\ batch' = IF lastOp = "Flush" THEN <<call>> ELSE Append(batch, call)
Unrecorded(call) == Called(call) /\ UNCHANGED batch

\* Flush was called; batch keeps the calls that this flush flushed (none when
\* the flush follows another flush directly).
FlushedHistory ==
    /\ UNCHANGED graphVars
    /\ upstream' = upstream
    /\ declared' = Deliver(declared, out')
    /\ declaredBefore' = declared
    /\ lastOp' = "Flush"
    /\ prevFlush' = IF lastOp = "Flush"
                    THEN (IF out # <<>> THEN "emitted" ELSE "silent")
                    ELSE "none"
    /\ sentBefore' = SentView
    /\ notReadyCalled' = (lastOp # "Flush" /\ notReadyCalled)
    /\ batch' = IF lastOp = "Flush" THEN <<>> ELSE batch
Flushed == FlushedHistory /\ UNCHANGED <<upMembers, downMembers, replay>>

(***************************************************************************)
(* IP-set runs: any order of IP-set callbacks and flushes.                 *)
(***************************************************************************)
NextIPSets ==
    /\ fault = "none"
    /\ \/ \E s \in SetIDs :
            Room(MaxBatchIPSets) /\ OnIPSetAdded(s) /\ Recorded(<<"OnIPSetAdded", s>>)
       \/ \E s \in SetIDs :
            Room(MaxBatchIPSets) /\ OnIPSetRemoved(s) /\ Recorded(<<"OnIPSetRemoved", s>>)
       \/ \E s \in SetIDs, a \in Addrs :
            Room(MaxBatchIPSets) /\ OnIPAdded(s, a) /\ Recorded(<<"OnIPAdded", s, a>>)
       \/ \E s \in SetIDs, a \in Addrs :
            Room(MaxBatchIPSets) /\ OnIPRemoved(s, a) /\ Recorded(<<"OnIPRemoved", s, a>>)
       \/ Flush /\ Flushed

SpecIPSets == Init /\ [][NextIPSets]_vars
(***************************************************************************)
(* Runs over every kind of callback, one object of each kind.              *)
(***************************************************************************)
OneSet == "s1"
OneAddr == CHOOSE a \in Addrs : \A b \in Addrs : a <= b
OnePolicy == [Name |-> "polA"]
OneProfile == [Name |-> "profA"]
OneHost == "hostA"
OneNet == <<"10.0.0.0", 24>>
OneRules == ParsedRules({OneSet}, FALSE)
OneTiers == <<TierInfo("default", <<PolKV(OnePolicy, FALSE)>>)>>

OneEndpoint(key) == EndpointFor(key, <<OneProfile.Name>>)
\* the tiers passed with an endpoint: none with a nil endpoint
TiersFor(ep) == IF ep = NilEndpoint THEN <<>> ELSE OneTiers

Next ==
    /\ fault = "none"
    /\ \/ OnIPSetAdded(OneSet) /\ Unrecorded(<<"OnIPSetAdded", OneSet>>)
       \/ OnIPSetRemoved(OneSet) /\ Unrecorded(<<"OnIPSetRemoved", OneSet>>)
       \/ OnDatastoreNotReady /\ Unrecorded(<<"OnDatastoreNotReady">>)
       \/ \E g \in {Nil, "cfg1"} :
            OnConfigUpdate(g, "cfg1") /\ Unrecorded(<<"OnConfigUpdate", g, "cfg1">>)
       \/ OnPolicyActive(OnePolicy, OneRules)
            /\ Unrecorded(<<"OnPolicyActive", OnePolicy, OneRules>>)
       \/ OnPolicyInactive(OnePolicy) /\ Unrecorded(<<"OnPolicyInactive", OnePolicy>>)
       \/ OnProfileActive(OneProfile, OneRules)
            /\ Unrecorded(<<"OnProfileActive", OneProfile, OneRules>>)
       \/ OnProfileInactive(OneProfile) /\ Unrecorded(<<"OnProfileInactive", OneProfile>>)
       \/ \E ep \in {NilEndpoint, OneEndpoint(wlKey)} :
            OnEndpointTierUpdate(wlKey, ep, TiersFor(ep))
            /\ Unrecorded(<<"OnEndpointTierUpdate", wlKey, ep, TiersFor(ep)>>)
       \/ OnHostIPUpdate(OneHost, OneAddr) /\ Unrecorded(<<"OnHostIPUpdate", OneHost, OneAddr>>)
       \/ OnHostIPRemove(OneHost) /\ Unrecorded(<<"OnHostIPRemove", OneHost>>)
       \/ OnIPPoolUpdate(IPPoolKey(OneNet), IPPool(OneNet, TRUE))
            /\ Unrecorded(<<"OnIPPoolUpdate", IPPoolKey(OneNet)>>)
       \/ OnIPPoolRemove(IPPoolKey(OneNet)) /\ Unrecorded(<<"OnIPPoolRemove", IPPoolKey(OneNet)>>)
       \/ Flush /\ Flushed

Spec == Init /\ [][Next]_vars

(***************************************************************************)
(* Mainline runs: IP sets, policies, profiles and endpoints.               *)
(***************************************************************************)
NextMainline ==
    /\ fault = "none"
    /\ \/ OnIPSetAdded(OneSet) /\ Unrecorded(<<"OnIPSetAdded", OneSet>>)
       \/ OnIPSetRemoved(OneSet) /\ Unrecorded(<<"OnIPSetRemoved", OneSet>>)
       \/ OnIPAdded(OneSet, OneAddr) /\ Unrecorded(<<"OnIPAdded", OneSet, OneAddr>>)
       \/ OnIPRemoved(OneSet, OneAddr) /\ Unrecorded(<<"OnIPRemoved", OneSet, OneAddr>>)
       \/ \E k \in PolicyKeys :
            OnPolicyActive(k, OneRules) /\ Unrecorded(<<"OnPolicyActive", k, OneRules>>)
       \/ \E k \in PolicyKeys :
            OnPolicyInactive(k) /\ Unrecorded(<<"OnPolicyInactive", k>>)
       \/ OnProfileActive(OneProfile, OneRules)
            /\ Unrecorded(<<"OnProfileActive", OneProfile, OneRules>>)
       \/ OnProfileInactive(OneProfile) /\ Unrecorded(<<"OnProfileInactive", OneProfile>>)
       \/ \E k \in EndpointKeys, present \in BOOLEAN :
            LET ep == IF present THEN OneEndpoint(k) ELSE NilEndpoint IN
            OnEndpointTierUpdate(k, ep, TiersFor(ep))
            /\ Unrecorded(<<"OnEndpointTierUpdate", k, ep, TiersFor(ep)>>)
       \/ Flush /\ Flushed

SpecMainline == Init /\ [][NextMainline]_vars

(***************************************************************************)
(* Keyed-object runs: policies, profiles, endpoints, host IPs, IP pools.   *)
(***************************************************************************)
NextKeyed ==
    /\ fault = "none"
    /\ \/ Room(MaxBatchKeyed) /\ OnPolicyActive(OnePolicy, OneRules)
            /\ Recorded(<<"OnPolicyActive", OnePolicy, OneRules>>)
       \/ Room(MaxBatchKeyed) /\ OnPolicyInactive(OnePolicy)
            /\ Recorded(<<"OnPolicyInactive", OnePolicy>>)
       \/ Room(MaxBatchKeyed) /\ OnProfileActive(OneProfile, OneRules)
            /\ Recorded(<<"OnProfileActive", OneProfile, OneRules>>)
       \/ Room(MaxBatchKeyed) /\ OnProfileInactive(OneProfile)
            /\ Recorded(<<"OnProfileInactive", OneProfile>>)
       \/ \E ep \in {NilEndpoint, OneEndpoint(wlKey)} :
            Room(MaxBatchKeyed) /\ OnEndpointTierUpdate(wlKey, ep, TiersFor(ep))
            /\ Recorded(<<"OnEndpointTierUpdate", wlKey, ep, TiersFor(ep)>>)
       \/ Room(MaxBatchKeyed) /\ OnHostIPUpdate(OneHost, OneAddr)
            /\ Recorded(<<"OnHostIPUpdate", OneHost, OneAddr>>)
       \/ Room(MaxBatchKeyed) /\ OnHostIPRemove(OneHost)
            /\ Recorded(<<"OnHostIPRemove", OneHost>>)
       \/ Room(MaxBatchKeyed) /\ OnIPPoolUpdate(IPPoolKey(OneNet), IPPool(OneNet, TRUE))
            /\ Recorded(<<"OnIPPoolUpdate", IPPoolKey(OneNet)>>)
       \/ Room(MaxBatchKeyed) /\ OnIPPoolRemove(IPPoolKey(OneNet))
            /\ Recorded(<<"OnIPPoolRemove", IPPoolKey(OneNet)>>)
       \/ Flush /\ Flushed

SpecKeyed == Init /\ [][NextKeyed]_vars
(***************************************************************************)
(* Properties of the flush order.                                          *)
(***************************************************************************)
Types(ts) == {i \in 1..Len(out) : out[i].type \in ts}
Has(t) == Types({t}) # {}

EndpointUpdateTypes == {"WorkloadEndpointUpdate", "HostEndpointUpdate"}
EndpointRemoveTypes == {"WorkloadEndpointRemove", "HostEndpointRemove"}

\* The group of the flush schedule a mainline addition belongs to (0: none).
AddRank(t) ==
    CASE t = "IPSetUpdate" -> 1
      [] t = "IPSetDeltaUpdate" -> 2
      [] t = "ActivePolicyUpdate" -> 3
      [] t = "ActiveProfileUpdate" -> 4
      [] t \in EndpointUpdateTypes -> 5
      [] OTHER -> 0
\* The group of the flush schedule a mainline removal belongs to (0: none).
RemoveRank(t) ==
    CASE t \in EndpointRemoveTypes -> 1
      [] t = "ActiveProfileRemove" -> 2
      [] t = "ActivePolicyRemove" -> 3
      [] t = "IPSetRemove" -> 4
      [] OTHER -> 0

\* C1: in every flush the additions come in the order IPSetUpdate, IPSetDeltaUpdate,
\* ActivePolicyUpdate, ActiveProfileUpdate, endpoint updates: no message of a
\* later group precedes a message of an earlier group.
C1_AdditionsInOrder ==
    \A i, j \in 1..Len(out) :
        (i < j /\ AddRank(out[i].type) > 0 /\ AddRank(out[j].type) > 0)
            => AddRank(out[i].type) <= AddRank(out[j].type)

\* A flush that emitted a message of each of the five groups of additions.
C1_Witness ==
    /\ lastOp = "Flush"
    /\ Has("IPSetUpdate") /\ Has("IPSetDeltaUpdate") /\ Has("ActivePolicyUpdate")
    /\ Has("ActiveProfileUpdate")
    /\ Has("WorkloadEndpointUpdate") /\ Has("HostEndpointUpdate")

\* C2: in every flush the removals come after every IP-set, policy, profile and
\* endpoint update, in the order endpoint removes, ActiveProfileRemove,
\* ActivePolicyRemove, IPSetRemove.
C2_RemovalsAfterAndReversed ==
    \A i, j \in 1..Len(out) :
        i < j =>
            /\ ~(RemoveRank(out[i].type) > 0 /\ AddRank(out[j].type) > 0)
            /\ (RemoveRank(out[i].type) > 0 /\ RemoveRank(out[j].type) > 0)
                  => RemoveRank(out[i].type) <= RemoveRank(out[j].type)

\* A flush that emitted updates of a policy and an endpoint and a removal of each
\* of the four kinds.
C2_Witness ==
    /\ lastOp = "Flush"
    /\ Has("ActivePolicyUpdate") /\ Has("HostEndpointUpdate")
    /\ Has("WorkloadEndpointRemove") /\ Has("ActiveProfileRemove")
    /\ Has("ActivePolicyRemove") /\ Has("IPSetRemove")

\* C3: when OnDatastoreNotReady was called since the previous flush, the flush
\* emits exactly one DatastoreNotReady, as its first message; a ConfigUpdate
\* comes after the DatastoreNotReady and before every other message.
C3_ReadyAndConfigFirst ==
    lastOp = "Flush" =>
        /\ notReadyCalled =>
              /\ Len(out) >= 1
              /\ out[1].type = "DatastoreNotReady"
              /\ Cardinality(Types({"DatastoreNotReady"})) = 1
        /\ \A i \in Types({"ConfigUpdate"}) :
              /\ \A j \in 1..Len(out) : j < i => out[j].type = "DatastoreNotReady"
              /\ \A j \in 1..Len(out) : j > i => out[j].type # "DatastoreNotReady"

\* A flush after OnDatastoreNotReady that emitted a ConfigUpdate and messages
\* about an IP set, a policy, a profile, an endpoint, a host IP and an IP pool.
C3_Witness ==
    /\ lastOp = "Flush" /\ notReadyCalled
    /\ Has("ConfigUpdate") /\ Has("IPSetUpdate") /\ Has("ActivePolicyUpdate")
    /\ Has("ActiveProfileRemove") /\ Has("WorkloadEndpointUpdate")
    /\ Has("HostMetadataUpdate") /\ Has("IPAMPoolUpdate")

\* C5: a flush that directly follows another flush, with no callback in
\* between, hands no message to Callback.
C5_SecondFlushSilent ==
    (lastOp = "Flush" /\ prevFlush # "none") => out = <<>>

\* Two flushes in a row, the first of which emitted messages.
C5_Witness == lastOp = "Flush" /\ prevFlush = "emitted" /\ out = <<>> /\ fault = "none"
(***************************************************************************)
(* Properties of the keyed objects: policies, profiles, endpoints, host    *)
(* IPs and IP pools.  They are stated on the calls of the batch that the   *)
(* last flush flushed, the sent view before it and the messages it sent.   *)
(***************************************************************************)
Kinds == {"policy", "profile", "endpoint", "hostIP", "ipPool"}
KeysOf(kind) ==
    CASE kind = "policy" -> PolicyKeys
      [] kind = "profile" -> ProfileKeys
      [] kind = "endpoint" -> EndpointKeys
      [] kind = "hostIP" -> Hostnames
      [] kind = "ipPool" -> {IPPoolKey(n) : n \in PoolNets}

\* the callbacks of a kind
UpdateCallOf(kind) ==
    CASE kind = "policy" -> "OnPolicyActive"
      [] kind = "profile" -> "OnProfileActive"
      [] kind = "endpoint" -> "OnEndpointTierUpdate"
      [] kind = "hostIP" -> "OnHostIPUpdate"
      [] kind = "ipPool" -> "OnIPPoolUpdate"
RemoveCallOf(kind) ==
    CASE kind = "policy" -> "OnPolicyInactive"
      [] kind = "profile" -> "OnProfileInactive"
      [] kind = "endpoint" -> "OnEndpointTierUpdate"
      [] kind = "hostIP" -> "OnHostIPRemove"
      [] kind = "ipPool" -> "OnIPPoolRemove"

\* call is an update / a remove of the object k of the kind
IsUpdateCall(kind, k, call) ==
    /\ call[1] = UpdateCallOf(kind)
    /\ call[2] = k
    /\ kind = "endpoint" => call[3] # NilEndpoint
IsRemoveCall(kind, k, call) ==
    /\ call[1] = RemoveCallOf(kind)
    /\ call[2] = k
    /\ kind = "endpoint" => call[3] = NilEndpoint
IsCallAbout(kind, k, call) == IsUpdateCall(kind, k, call) \/ IsRemoveCall(kind, k, call)

\* The batch updated k and later removed it, the remove being its last call.
AddedThenRemoved(kind, k) ==
    \E i, j \in 1..Len(batch) :
        /\ i < j
        /\ IsUpdateCall(kind, k, batch[i])
        /\ IsRemoveCall(kind, k, batch[j])
        /\ \A l \in 1..Len(batch) : l > j => ~IsCallAbout(kind, k, batch[l])
\* The batch removed k and later updated it, the update being its last call.
RemovedThenAdded(kind, k) ==
    \E i, j \in 1..Len(batch) :
        /\ i < j
        /\ IsRemoveCall(kind, k, batch[i])
        /\ IsUpdateCall(kind, k, batch[j])
        /\ \A l \in 1..Len(batch) : l > j => ~IsCallAbout(kind, k, batch[l])

\* the key under which the sent sets hold the object
SentKey(kind, k) == IF kind = "ipPool" THEN CIDRFromCalicoNet(k.CIDR) ELSE k
SentOf(view, kind) ==
    CASE kind = "policy" -> view.Policies
      [] kind = "profile" -> view.Profiles
      [] kind = "endpoint" -> view.Endpoints
      [] kind = "hostIP" -> view.HostIPs
      [] kind = "ipPool" -> view.IPPools
WasSent(kind, k) == SentKey(kind, k) \in SentOf(sentBefore, kind)
IsSent(kind, k) == SentKey(kind, k) \in SentOf(SentView, kind)

\* the messages about an object
UpdateTypeOf(kind, k) ==
    CASE kind = "policy" -> "ActivePolicyUpdate"
      [] kind = "profile" -> "ActiveProfileUpdate"
      [] kind = "endpoint" ->
            IF k.kind = "WorkloadEndpointKey" THEN "WorkloadEndpointUpdate"
            ELSE "HostEndpointUpdate"
      [] kind = "hostIP" -> "HostMetadataUpdate"
      [] kind = "ipPool" -> "IPAMPoolUpdate"
RemoveTypeOf(kind, k) ==
    CASE kind = "policy" -> "ActivePolicyRemove"
      [] kind = "profile" -> "ActiveProfileRemove"
      [] kind = "endpoint" ->
            IF k.kind = "WorkloadEndpointKey" THEN "WorkloadEndpointRemove"
            ELSE "HostEndpointRemove"
      [] kind = "hostIP" -> "HostMetadataRemove"
      [] kind = "ipPool" -> "IPAMPoolRemove"
MsgIDOf(kind, k) ==
    CASE kind = "policy" -> PolicyID(k)
      [] kind = "profile" -> ProfileID(k)
      [] kind = "endpoint" -> EndpointID(k)
      [] kind = "hostIP" -> k
      [] kind = "ipPool" -> cidrToIPPoolID(CIDRFromCalicoNet(k.CIDR))
UpdateMsgs(kind, k) ==
    {i \in 1..Len(out) : out[i].type = UpdateTypeOf(kind, k) /\ out[i].id = MsgIDOf(kind, k)}
RemoveMsgs(kind, k) ==
    {i \in 1..Len(out) : out[i].type = RemoveTypeOf(kind, k) /\ out[i].id = MsgIDOf(kind, k)}

\* C8: for an object that is not in the sent view, an update callback followed by
\* the matching remove callback (its last callback before the flush) leaves no
\* update and no remove message for it in that flush.
C8_AddThenDeleteCancels ==
    lastOp = "Flush" =>
        \A kind \in Kinds : \A k \in KeysOf(kind) :
            (~WasSent(kind, k) /\ AddedThenRemoved(kind, k))
                => (UpdateMsgs(kind, k) = {} /\ RemoveMsgs(kind, k) = {})

\* A flush of a batch that added and removed an unsent object (a policy, a host
\* IP, an IP pool or an endpoint) and that emitted something else.
C8_Witness ==
    /\ lastOp = "Flush" /\ fault = "none" /\ out # <<>>
    /\ \E kind \in {"policy", "hostIP", "ipPool", "endpoint"} : \E k \in KeysOf(kind) :
          ~WasSent(kind, k) /\ AddedThenRemoved(kind, k)

MainKinds == {"policy", "profile", "endpoint", "hostIP"}

\* C9: for policies, profiles, endpoints and host IPs the pending updates and the
\* pending deletes are disjoint, a flush emits at most one message per key, and
\* for a key in the sent view a remove followed by an update yields exactly one
\* update message and no remove message.
C9_UpdateXorDelete ==
    /\ (DOMAIN pendingPolicyUpdates) \cap pendingPolicyDeletes = {}
    /\ (DOMAIN pendingProfileUpdates) \cap pendingProfileDeletes = {}
    /\ (DOMAIN pendingEndpointUpdates) \cap pendingEndpointDeletes = {}
    /\ (DOMAIN pendingHostIPUpdates) \cap pendingHostIPDeletes = {}
    /\ lastOp = "Flush" =>
          \A kind \in MainKinds : \A k \in KeysOf(kind) :
              /\ Cardinality(UpdateMsgs(kind, k)) + Cardinality(RemoveMsgs(kind, k)) <= 1
              /\ (WasSent(kind, k) /\ RemovedThenAdded(kind, k))
                    => (Cardinality(UpdateMsgs(kind, k)) = 1 /\ RemoveMsgs(kind, k) = {})

\* A flush of a batch that removed and re-added a sent policy.
C9_Witness ==
    /\ lastOp = "Flush" /\ fault = "none"
    /\ \E k \in PolicyKeys :
          /\ WasSent("policy", k) /\ RemovedThenAdded("policy", k)
          /\ UpdateMsgs("policy", k) # {}

\* C10 (as claimed): for an IP pool in the sent view, OnIPPoolRemove followed by
\* OnIPPoolUpdate cancels the pending delete, and the flush sends a single
\* IPAMPoolUpdate and no IPAMPoolRemove for the pool.
C10_PoolReAddCancelsDelete ==
    \A k \in KeysOf("ipPool") :
        (WasSent("ipPool", k) /\ RemovedThenAdded("ipPool", k)) =>
            /\ fault = "none"
            /\ lastOp = "On" => SentKey("ipPool", k) \notin pendingIPPoolDeletes
            /\ lastOp = "Flush" =>
                  (Cardinality(UpdateMsgs("ipPool", k)) = 1 /\ RemoveMsgs("ipPool", k) = {})
(***************************************************************************)
(* Properties of the IP sets.                                              *)
(***************************************************************************)
IPSetCalls == {"OnIPSetAdded", "OnIPSetRemoved", "OnIPAdded", "OnIPRemoved"}
IsIPSetCallAbout(setID, call) == call[1] \in IPSetCalls /\ call[2] = setID
IsIPCallAbout(setID, call) == call[1] \in {"OnIPAdded", "OnIPRemoved"} /\ call[2] = setID

IPSetMsgTypes == {"IPSetUpdate", "IPSetDeltaUpdate", "IPSetRemove"}
MsgsAboutSet(setID) ==
    {i \in 1..Len(out) : out[i].type \in IPSetMsgTypes /\ out[i].id = setID}

\* The batch added the set and later removed it, with nothing but IP events of
\* the set in between; the remove is the set's last call.
SetAddedThenRemoved(setID) ==
    \E i, j \in 1..Len(batch) :
        /\ i < j
        /\ batch[i][1] = "OnIPSetAdded" /\ batch[i][2] = setID
        /\ batch[j][1] = "OnIPSetRemoved" /\ batch[j][2] = setID
        /\ \A l \in 1..Len(batch) :
              (i < l /\ l < j /\ IsIPSetCallAbout(setID, batch[l]))
                  => IsIPCallAbout(setID, batch[l])
        /\ \A l \in 1..Len(batch) : l > j => ~IsIPSetCallAbout(setID, batch[l])

\* C7: when OnIPSetAdded(X) is called for a set X that is not in the sent view and
\* OnIPSetRemoved(X) is called before the flush (with any OnIPAdded / OnIPRemoved
\* of X in between), the flush emits no IPSetUpdate, IPSetDeltaUpdate or
\* IPSetRemove for X and X is not in the sent view afterwards.
C7_SetAddRemoveCancels ==
    lastOp = "Flush" =>
        \A X \in SetIDs :
            (X \notin sentBefore.IPSets /\ SetAddedThenRemoved(X))
                => (MsgsAboutSet(X) = {} /\ X \notin sentIPSets)

\* A flush of a batch that added an unsent set, added an IP to it and removed
\* the set, and that emitted a message about another set.
C7_Witness ==
    /\ lastOp = "Flush" /\ fault = "none" /\ out # <<>>
    /\ \E X \in SetIDs :
          /\ X \notin sentBefore.IPSets /\ SetAddedThenRemoved(X)
          /\ \E l \in 1..Len(batch) : batch[l][1] = "OnIPAdded" /\ batch[l][2] = X
(***************************************************************************)
(* Runs over all objects, one of each kind, with the calls recorded.       *)
(***************************************************************************)
NextCoalesce ==
    /\ fault = "none"
    /\ \/ Room(MaxBatchCoalesce) /\ OnIPSetAdded(OneSet)
            /\ Recorded(<<"OnIPSetAdded", OneSet>>)
       \/ Room(MaxBatchCoalesce) /\ OnIPSetRemoved(OneSet)
            /\ Recorded(<<"OnIPSetRemoved", OneSet>>)
       \/ Room(MaxBatchCoalesce) /\ OnIPAdded(OneSet, OneAddr)
            /\ Recorded(<<"OnIPAdded", OneSet, OneAddr>>)
       \/ Room(MaxBatchCoalesce) /\ OnIPRemoved(OneSet, OneAddr)
            /\ Recorded(<<"OnIPRemoved", OneSet, OneAddr>>)
       \/ Room(MaxBatchCoalesce) /\ OnPolicyActive(OnePolicy, OneRules)
            /\ Recorded(<<"OnPolicyActive", OnePolicy, OneRules>>)
       \/ Room(MaxBatchCoalesce) /\ OnPolicyInactive(OnePolicy)
            /\ Recorded(<<"OnPolicyInactive", OnePolicy>>)
       \/ Room(MaxBatchCoalesce) /\ OnProfileActive(OneProfile, OneRules)
            /\ Recorded(<<"OnProfileActive", OneProfile, OneRules>>)
       \/ Room(MaxBatchCoalesce) /\ OnProfileInactive(OneProfile)
            /\ Recorded(<<"OnProfileInactive", OneProfile>>)
       \/ \E ep \in {NilEndpoint, OneEndpoint(hostKey)} :
            Room(MaxBatchCoalesce) /\ OnEndpointTierUpdate(hostKey, ep, TiersFor(ep))
            /\ Recorded(<<"OnEndpointTierUpdate", hostKey, ep, TiersFor(ep)>>)
       \/ Room(MaxBatchCoalesce) /\ OnHostIPUpdate(OneHost, OneAddr)
            /\ Recorded(<<"OnHostIPUpdate", OneHost, OneAddr>>)
       \/ Room(MaxBatchCoalesce) /\ OnHostIPRemove(OneHost)
            /\ Recorded(<<"OnHostIPRemove", OneHost>>)
       \/ Room(MaxBatchCoalesce) /\ OnIPPoolUpdate(IPPoolKey(OneNet), IPPool(OneNet, TRUE))
            /\ Recorded(<<"OnIPPoolUpdate", IPPoolKey(OneNet)>>)
       \/ Room(MaxBatchCoalesce) /\ OnIPPoolRemove(IPPoolKey(OneNet))
            /\ Recorded(<<"OnIPPoolRemove", IPPoolKey(OneNet)>>)
       \/ Flush /\ Flushed

SpecCoalesce == Init /\ [][NextCoalesce]_vars

(***************************************************************************)
(* Coalescing.                                                             *)
(***************************************************************************)
CallsAbout(kind, k) == {i \in 1..Len(batch) : IsCallAbout(kind, k, batch[i])}
Last(S) == CHOOSE i \in S : \A j \in S : j <= i

\* The batch's last call about the object is an update / a remove.
LastIsUpdate(kind, k) ==
    CallsAbout(kind, k) # {} /\ IsUpdateCall(kind, k, batch[Last(CallsAbout(kind, k))])
LastIsRemove(kind, k) ==
    CallsAbout(kind, k) # {} /\ IsRemoveCall(kind, k, batch[Last(CallsAbout(kind, k))])

\* The callbacks leave the object as the sent view has it: absent and removed
\* last, or present and delivered last (each object has one value in these runs,
\* so a delivery repeats the content already sent).
NetUnchanged(kind, k) ==
    \/ CallsAbout(kind, k) = {}
    \/ ~WasSent(kind, k) /\ LastIsRemove(kind, k)
    \/ WasSent(kind, k) /\ LastIsUpdate(kind, k)

SetLevelCalls(setID) ==
    {i \in 1..Len(batch) :
        batch[i][1] \in {"OnIPSetAdded", "OnIPSetRemoved"} /\ batch[i][2] = setID}
IPCalls(setID, ip) ==
    {i \in 1..Len(batch) : IsIPCallAbout(setID, batch[i]) /\ batch[i][3] = ip}
\* The IP events of one IP in the batch alternate and come in pairs: the IP is
\* a member after them exactly if it was before.
IPRoundTrip(setID, ip) ==
    /\ IPCalls(setID, ip) # {}
    /\ Cardinality(IPCalls(setID, ip)) % 2 = 0
    /\ \A i, j \in IPCalls(setID, ip) :
          (i < j /\ \A l \in IPCalls(setID, ip) : ~(i < l /\ l < j))
              => batch[i][1] # batch[j][1]
\* The deltas of a set that mention the IP.
DeltasNaming(setID, ip) ==
    {i \in 1..Len(out) :
        /\ out[i].type = "IPSetDeltaUpdate" /\ out[i].id = setID
        /\ AddrString(ip) \in Listed(out[i].added) \cup Listed(out[i].removed)}

\* C6 (as claimed): if the callbacks since the previous flush leave an object
\* as the sent view has it, the flush emits no message about it.
C6_NetUnchangedIsSilent ==
    lastOp = "Flush" =>
        /\ \A kind \in Kinds : \A k \in KeysOf(kind) :
              NetUnchanged(kind, k) => (UpdateMsgs(kind, k) = {} /\ RemoveMsgs(kind, k) = {})
        /\ \A X \in SetIDs : \A ip \in Addrs :
              (X \in sentBefore.IPSets /\ SetLevelCalls(X) = {} /\ IPRoundTrip(X, ip))
                  => DeltasNaming(X, ip) = {}

\* C6 (amended): the flush emits no message about an object that had no callback,
\* about an object that is absent from the sent view and was removed last, about
\* an unsent IP set that was removed last, or about an IP of a sent set whose
\* events cancel out; an object of the sent view that was delivered last is sent
\* again, as an update.
C6_CoalescingOfAbsentAndUntouched ==
    lastOp = "Flush" =>
        /\ \A kind \in Kinds : \A k \in KeysOf(kind) :
              /\ (CallsAbout(kind, k) = {} \/ (~WasSent(kind, k) /\ LastIsRemove(kind, k)))
                    => (UpdateMsgs(kind, k) = {} /\ RemoveMsgs(kind, k) = {})
              /\ (fault = "none" /\ WasSent(kind, k) /\ LastIsUpdate(kind, k))
                    => Cardinality(UpdateMsgs(kind, k)) = 1
        /\ \A X \in SetIDs :
              /\ (\A l \in 1..Len(batch) : ~IsIPSetCallAbout(X, batch[l]))
                    => MsgsAboutSet(X) = {}
              /\ (X \notin sentBefore.IPSets /\ SetLevelCalls(X) # {}
                    /\ batch[Last(SetLevelCalls(X))][1] = "OnIPSetRemoved")
                    => MsgsAboutSet(X) = {}
              /\ \A ip \in Addrs :
                    (X \in sentBefore.IPSets /\ SetLevelCalls(X) = {} /\ IPRoundTrip(X, ip))
                        => DeltasNaming(X, ip) = {}

\* A silent flush of a batch that removed an IP from a sent set and added it
\* again.
C6_Witness ==
    /\ lastOp = "Flush" /\ fault = "none" /\ out = <<>>
    /\ \E X \in SetIDs, ip \in Addrs :
          /\ X \in sentBefore.IPSets /\ SetLevelCalls(X) = {} /\ IPRoundTrip(X, ip)
          /\ batch[1][1] = "OnIPRemoved"
(***************************************************************************)
(* Runs of a consistent calculation graph: policies and profiles whose     *)
(* rules may reference the IP sets, an endpoint that may reference the      *)
(* profile and the policy.  Flush is called when the graph is consistent.  *)
(***************************************************************************)
DepRules == {ParsedRules(S, FALSE) : S \in SUBSET SetIDs}
DepEndpoints == {NilEndpoint, EndpointFor(wlKey, <<>>), EndpointFor(wlKey, <<OneProfile.Name>>)}
DepTiers(ep) == IF ep = NilEndpoint THEN {<<>>} ELSE {<<>>, OneTiers}

\* the policies an endpoint's tiers reference, and the profiles it references
TierPolicies(tiers) ==
    UNION {{tiers[i].OrderedPolicies[j].Key : j \in 1..Len(tiers[i].OrderedPolicies)} :
            i \in 1..Len(tiers)}
EndpointProfiles(ep) == {[Name |-> ep.ProfileIDs[i]] : i \in 1..Len(ep.ProfileIDs)}

\* Every active policy and profile references active IP sets only, every
\* endpoint references active policies and profiles only.
Consistent ==
    /\ \A k \in DOMAIN upstream.Policies : upstream.Policies[k].ipSets \subseteq upstream.IPSets
    /\ \A k \in DOMAIN upstream.Profiles : upstream.Profiles[k].ipSets \subseteq upstream.IPSets
    /\ \A k \in DOMAIN upstream.Endpoints :
          /\ TierPolicies(upstream.Endpoints[k].tiers) \subseteq DOMAIN upstream.Policies
          /\ EndpointProfiles(upstream.Endpoints[k].endpoint) \subseteq DOMAIN upstream.Profiles

NextDeps ==
    /\ fault = "none"
    /\ \/ \E s \in SetIDs : OnIPSetAdded(s) /\ Unrecorded(<<"OnIPSetAdded", s>>)
       \/ \E s \in SetIDs : OnIPSetRemoved(s) /\ Unrecorded(<<"OnIPSetRemoved", s>>)
       \/ \E rules \in DepRules :
            OnPolicyActive(OnePolicy, rules)
            /\ Unrecorded(<<"OnPolicyActive", OnePolicy, rules>>)
       \/ OnPolicyInactive(OnePolicy) /\ Unrecorded(<<"OnPolicyInactive", OnePolicy>>)
       \/ \E rules \in DepRules :
            OnProfileActive(OneProfile, rules)
            /\ Unrecorded(<<"OnProfileActive", OneProfile, rules>>)
       \/ OnProfileInactive(OneProfile) /\ Unrecorded(<<"OnProfileInactive", OneProfile>>)
       \/ \E ep \in DepEndpoints : \E tiers \in DepTiers(ep) :
            OnEndpointTierUpdate(wlKey, ep, tiers)
            /\ Unrecorded(<<"OnEndpointTierUpdate", wlKey, ep, tiers>>)
       \/ Consistent /\ Flush /\ Flushed

SpecDeps == Init /\ [][NextDeps]_vars

\* the objects a message references
RefIPSets(m) ==
    IF m.type \in {"ActivePolicyUpdate", "ActiveProfileUpdate"} THEN m.body.ipSets ELSE {}
TierRefs(tiers) ==
    UNION {{[Tier |-> tiers[i].Name, Name |-> tiers[i].Policies[j]] :
                j \in 1..Len(tiers[i].Policies)} : i \in 1..Len(tiers)}
RefPolicies(m) ==
    IF m.type \in EndpointUpdateTypes
    THEN TierRefs(m.body.Tiers) \cup TierRefs(m.body.UntrackedTiers)
    ELSE {}
RefProfiles(m) ==
    IF m.type \in EndpointUpdateTypes
    THEN {[Name |-> m.body.ProfileIds[i]] : i \in 1..Len(m.body.ProfileIds)}
    ELSE {}
\* what is declared when the i-th message of the flush is emitted
DeclaredAt(i) == Deliver(declaredBefore, SubSeq(out, 1, i - 1))

\* C4: when Flush is only called on a consistent graph, every IP set, policy and
\* profile that a message of a flush references has been declared by an earlier
\* message of the flush or by a previous flush, and not been removed since.
C4_ReferencesDeclared ==
    lastOp = "Flush" =>
        \A i \in 1..Len(out) :
            /\ RefIPSets(out[i]) \subseteq DeclaredAt(i).IPSets
            /\ RefPolicies(out[i]) \subseteq DeclaredAt(i).Policies
            /\ RefProfiles(out[i]) \subseteq DeclaredAt(i).Profiles

\* A flush that sent an endpoint referencing a policy declared earlier in the
\* same flush, the policy referencing an IP set declared by a previous flush.
C4_Witness ==
    /\ lastOp = "Flush"
    /\ \E i, j \in 1..Len(out) :
          /\ i < j
          /\ out[i].type = "ActivePolicyUpdate"
          /\ out[i].body.ipSets # {}
          /\ out[i].body.ipSets \subseteq declaredBefore.IPSets
          /\ out[j].type \in EndpointUpdateTypes
          /\ out[i].id \in RefPolicies(out[j])
          /\ out[i].id \notin declaredBefore.Policies
(***************************************************************************)
(* IP-level cancellation.                                                  *)
(***************************************************************************)
\* the step is a call of a callback, and this is the call
IsCall(call) == lastOp' = "On" /\ batch' # <<>> /\ batch'[Len(batch')] = call

\* OnIPAdded finding the IP pending-removed drops the removal and queues no add;
\* OnIPRemoved finding the IP pending-added drops the add and queues no removal.
IPCallCancels ==
    \A X \in SetIDs, a \in Addrs :
        /\ (IsCall(<<"OnIPAdded", X, a>>) /\ ~UnknownIPSet(X) /\ <<X, a>> \in pendingRemovedIPs)
              => /\ pendingRemovedIPs' = pendingRemovedIPs \ {<<X, a>>}
                 /\ pendingAddedIPs' = pendingAddedIPs
        /\ (IsCall(<<"OnIPRemoved", X, a>>) /\ ~UnknownIPSet(X) /\ <<X, a>> \in pendingAddedIPs)
              => /\ pendingAddedIPs' = pendingAddedIPs \ {<<X, a>>}
                 /\ pendingRemovedIPs' = pendingRemovedIPs

\* no set-level call about the set lies between the first and the last of the
\* batch's events of the IP
NoSetCallBetween(setID, ip) ==
    \A i, j \in IPCalls(setID, ip) : \A l \in SetLevelCalls(setID) : ~(i < l /\ l < j)

\* C11 (the consequence as claimed): an IP that the batch removed and re-added, or
\* added and removed, is named by no IPSetDeltaUpdate of the flush.
C11_IPRoundTripInNoDelta ==
    lastOp = "Flush" =>
        \A X \in SetIDs, a \in Addrs : IPRoundTrip(X, a) => DeltasNaming(X, a) = {}

\* C11 (amended): OnIPAdded cancels a pending removal of the IP and OnIPRemoved a
\* pending add, queueing nothing; an IP that the batch removed and re-added, or
\* added and removed, with no OnIPSetAdded or OnIPSetRemoved of the set between
\* these events, is named by no IPSetDeltaUpdate of the flush.
C11_IPCancellation ==
    /\ [][IPCallCancels]_vars
    /\ [](lastOp = "Flush" =>
            \A X \in SetIDs, a \in Addrs :
                (IPRoundTrip(X, a) /\ NoSetCallBetween(X, a)) => DeltasNaming(X, a) = {})

\* A flush that sent a delta for a set, of a batch in which an IP's events on
\* the set cancelled out.
C11_Witness ==
    /\ lastOp = "Flush" /\ fault = "none"
    /\ \E X \in SetIDs, a \in Addrs :
          /\ IPRoundTrip(X, a) /\ NoSetCallBetween(X, a)
          /\ \E i \in 1..Len(out) : out[i].type = "IPSetDeltaUpdate" /\ out[i].id = X
(***************************************************************************)
(* Faults of the IP-set callbacks.                                         *)
(***************************************************************************)
Faulted == fault' # "none"

\* C12: OnIPSetAdded(X) faults exactly when X is in the sent view and has no
\* pending removal, and then has modified no buffer.
C12_SetAddedFaults ==
    [][\A X \in SetIDs :
          IsCall(<<"OnIPSetAdded", X>>) =>
              /\ Faulted <=> (X \in sentIPSets /\ X \notin pendingRemovedIPSets)
              /\ Faulted => UNCHANGED bufVars]_vars

\* OnIPSetAdded has faulted on a sent set, in a batch that had removed and
\* re-added another sent set without a fault.
C12_Witness ==
    /\ fault = "OnIPSetAdded called for existing IP set"
    /\ Len(batch) >= 3
    /\ batch[Len(batch)][2] \in sentIPSets
    /\ batch[1][1] = "OnIPSetRemoved" /\ batch[2] = <<"OnIPSetAdded", batch[1][2]>>

\* C13: OnIPAdded, OnIPRemoved and OnIPSetRemoved fault exactly when the set is
\* neither in the sent view nor pending-added, and then leave every buffer and
\* sent set as it was.
C13_UnknownSetFaults ==
    [][\A X \in SetIDs :
          (\/ IsCall(<<"OnIPSetRemoved", X>>)
           \/ \E a \in Addrs : IsCall(<<"OnIPAdded", X, a>>) \/ IsCall(<<"OnIPRemoved", X, a>>))
          => /\ Faulted <=> (X \notin sentIPSets /\ X \notin pendingAddedIPSets)
             /\ Faulted => UNCHANGED bufVars]_vars

\* OnIPRemoved has faulted on a set that the batch had added and removed again.
C13_Witness ==
    /\ fault = "IP removed from unknown IP set"
    /\ Len(batch) >= 3
    /\ batch[Len(batch) - 1] = <<"OnIPSetRemoved", batch[Len(batch)][2]>>
    /\ batch[Len(batch) - 2] = <<"OnIPSetAdded", batch[Len(batch)][2]>>
(***************************************************************************)
(* Full replacement of a re-added IP set.                                  *)
(***************************************************************************)
\* The batch removed the set and added it again at call j, and only added IPs
\* to it afterwards.
ReAddedAt(setID, j) ==
    /\ batch[j] = <<"OnIPSetAdded", setID>>
    /\ \E i \in 1..(j - 1) : batch[i] = <<"OnIPSetRemoved", setID>>
    /\ \A l \in (j + 1)..Len(batch) :
          IsIPSetCallAbout(setID, batch[l]) => batch[l][1] = "OnIPAdded"
\* the IPs added to the set after call j
AddedAfter(setID, j) ==
    {batch[l][3] : l \in {k \in (j + 1)..Len(batch) :
                            batch[k][1] = "OnIPAdded" /\ batch[k][2] = setID}}

\* C14: a flush of a batch that removed a sent set and added it again, and then
\* only added IPs to it, emits for the set one IPSetUpdate with exactly these
\* IPs as members, and no IPSetRemove and no IPSetDeltaUpdate.
C14_ReAddedSetSentInFull ==
    (lastOp = "Flush" /\ fault = "none") =>
        \A X \in sentBefore.IPSets : \A j \in 1..Len(batch) :
            ReAddedAt(X, j) =>
                /\ MsgsAboutSet(X) # {}
                /\ \A i \in MsgsAboutSet(X) :
                      /\ \E members \in Perms(AddrStrings(AddedAfter(X, j))) :
                            out[i] = IPSetUpdate(X, members)
                      /\ \A k \in MsgsAboutSet(X) : k = i

\* A flush of a batch that removed a sent set, added it again and added an IP.
C14_Witness ==
    /\ lastOp = "Flush" /\ fault = "none"
    /\ \E X \in sentBefore.IPSets : \E j \in 1..Len(batch) :
          ReAddedAt(X, j) /\ AddedAfter(X, j) # {}
(***************************************************************************)
(* IP-set membership.  The calculation graph adds IPs to active sets only, *)
(* adds an IP that is absent and removes one that is present, and adds a   *)
(* set when it is empty.                                                   *)
(***************************************************************************)
\* the membership the calculation graph holds after a callback
UpMembers(m, call) ==
    CASE call[1] \in {"OnIPSetAdded", "OnIPSetRemoved"} -> [m EXCEPT ![call[2]] = {}]
      [] call[1] = "OnIPAdded" -> [m EXCEPT ![call[2]] = @ \cup {call[3]}]
      [] call[1] = "OnIPRemoved" -> [m EXCEPT ![call[2]] = @ \ {call[3]}]
      [] OTHER -> m

WellFormed(call) ==
    CASE call[1] = "OnIPSetAdded" -> upMembers[call[2]] = {}
      [] call[1] = "OnIPAdded" ->
            call[2] \in upstream.IPSets /\ call[3] \notin upMembers[call[2]]
      [] call[1] = "OnIPRemoved" ->
            call[2] \in upstream.IPSets /\ call[3] \in upMembers[call[2]]
      [] OTHER -> TRUE

\* The receiver applies a message: IPSetUpdate replaces the members,
\* IPSetDeltaUpdate adds and removes, IPSetRemove deletes the set.
ReceiveMembers(d, m) ==
    CASE m.type = "IPSetUpdate" -> [d EXCEPT ![m.id] = Listed(m.members)]
      [] m.type = "IPSetDeltaUpdate" ->
            [d EXCEPT ![m.id] = (@ \cup Listed(m.added)) \ Listed(m.removed)]
      [] m.type = "IPSetRemove" -> [d EXCEPT ![m.id] = {}]
      [] OTHER -> d
RECURSIVE DeliverMembers(_, _)
DeliverMembers(d, msgs) ==
    IF msgs = <<>> THEN d
    ELSE DeliverMembers(ReceiveMembers(d, Head(msgs)), Tail(msgs))

CalledMembers(call) ==
    /\ WellFormed(call)
    /\ CalledHistory(call)
    /\ upMembers' = UpMembers(upMembers, call)
    /\ UNCHANGED <<downMembers, batch, replay>>
FlushedMembers ==
    /\ FlushedHistory
    /\ downMembers' = DeliverMembers(downMembers, out')
    /\ UNCHANGED <<upMembers, replay>>

NextMembers ==
    /\ fault = "none"
    /\ \/ \E s \in SetIDs : OnIPSetAdded(s) /\ CalledMembers(<<"OnIPSetAdded", s>>)
       \/ \E s \in SetIDs : OnIPSetRemoved(s) /\ CalledMembers(<<"OnIPSetRemoved", s>>)
       \/ \E s \in SetIDs, a \in Addrs :
            OnIPAdded(s, a) /\ CalledMembers(<<"OnIPAdded", s, a>>)
       \/ \E s \in SetIDs, a \in Addrs :
            OnIPRemoved(s, a) /\ CalledMembers(<<"OnIPRemoved", s, a>>)
       \/ Flush /\ FlushedMembers

SpecMembers == Init /\ [][NextMembers]_vars

\* C15: with a well-formed calculation graph, after every flush the receiver
\* holds every active IP set, with exactly the IPs the graph holds in it.
C15_MembershipReconstructed ==
    (lastOp = "Flush" /\ fault = "none") =>
        \A X \in upstream.IPSets :
            /\ X \in declared.IPSets
            /\ downMembers[X] = AddrStrings(upMembers[X])

\* A flush that sent a delta adding one IP to and removing another from a set
\* that keeps a member.
C15_Witness ==
    /\ lastOp = "Flush" /\ fault = "none"
    /\ \E i \in 1..Len(out) :
          /\ out[i].type = "IPSetDeltaUpdate"
          /\ out[i].added # <<>> /\ out[i].removed # <<>>
          /\ downMembers[out[i].id] = AddrStrings(upMembers[out[i].id])
          /\ upMembers[out[i].id] # {}
(***************************************************************************)
(* The calculation graph's wiring of the rule scanner (calc_graph.go).     *)
(* A selector or tag that becomes active is announced as an IP set; the    *)
(* index it is handed to reports the endpoints that match it, whose IPs    *)
(* the member calculator adds to the set.  The indexes and the member      *)
(* calculator are reduced to the IPs they report.                          *)
(***************************************************************************)
Selectors == {"sel1", "sel2"}
Tags == {"tag1"}

\* hash.MakeUniqueID: the prefix, and a digest of the name that differs for
\* different names
MakeUniqueID(prefix, name) == prefix \o ":" \o name
\* selector.Selector.UniqueId()
UniqueId(sel) == MakeUniqueID("s", sel)
TagIPSetID(tagID) == MakeUniqueID("t", tagID)

\* OnIPSetAdded(setID), then OnIPAdded(setID, ip) for each ip of the matching
\* endpoints
IPSetAddedWithMembers(setID, ips) ==
    IF OnIPSetAddedPanics(setID)
    THEN Panic("OnIPSetAdded called for existing IP set")
    ELSE /\ pendingAddedIPSets' = pendingAddedIPSets \cup {setID}
         /\ pendingRemovedIPSets' = pendingRemovedIPSets \ {setID}
         /\ pendingAddedIPs' = DiscardKey(pendingAddedIPs, setID) \cup {<<setID, a>> : a \in ips}
         /\ pendingRemovedIPs' = DiscardKey(pendingRemovedIPs, setID)
         /\ Returns
         /\ UNCHANGED <<policyPending, profilePending, endpointPending, hostIPPending,
                        ipPoolPending, pendingNotReady, configPending, sentVars>>

\* ruleScanner.OnSelectorActive telling the index before the sequencer: the IPs
\* of the matches arrive first, then OnIPSetAdded empties the set
OnSelectorActiveIndexFirst(sel, ips) ==
    IF ips # {} /\ UnknownIPSet(UniqueId(sel))
    THEN Panic("IP added to unknown IP set")
    ELSE IPSetAddedWithMembers(UniqueId(sel), {})

\* The IPs the member calculator holds in the set.
Members(setID) == IF setID \in DOMAIN upMembers THEN upMembers[setID] ELSE {}

\* The pending IPs after OnIPRemoved(setID, ip) for each ip of ips: a pending add
\* of the ip is dropped, otherwise its removal is queued.
PendingAfterIPsRemoved(setID, ips) ==
    [added |-> pendingAddedIPs \ {<<setID, ip>> : ip \in ips},
     removed |-> pendingRemovedIPs
                    \cup {<<setID, ip>> : ip \in {a \in ips : <<setID, a>> \notin pendingAddedIPs}}]

\* The index purged before the set is removed: deleting the selector or tag
\* stops every match, so that the member calculator calls OnIPRemoved(setID, ip)
\* for each ip it holds in the set, and OnIPSetRemoved(setID) is called after.
IPSetRemovedAfterPurge(setID, ips) ==
    IF ips # {} /\ UnknownIPSet(setID)
    THEN Panic("IP removed from unknown IP set")
    ELSE IF UnknownIPSet(setID)
    THEN Panic("IPSetRemoved called for unknown IP set")
    ELSE /\ pendingRemovedIPSets' =
                IF setID \in sentIPSets THEN pendingRemovedIPSets \cup {setID}
                ELSE pendingRemovedIPSets
         /\ pendingAddedIPSets' = pendingAddedIPSets \ {setID}
         /\ pendingAddedIPs' = DiscardKey(PendingAfterIPsRemoved(setID, ips).added, setID)
         /\ pendingRemovedIPs' = DiscardKey(PendingAfterIPsRemoved(setID, ips).removed, setID)
         /\ Returns
         /\ UNCHANGED <<policyPending, profilePending, endpointPending, hostIPPending,
                        ipPoolPending, pendingNotReady, configPending, sentVars>>

\* OnIPSetRemoved(setID) called before the index is purged: the OnIPRemoved calls
\* of the purge arrive after the set is removed
IPSetRemovedBeforePurge(setID, ips) ==
    IF UnknownIPSet(setID)
    THEN Panic("IPSetRemoved called for unknown IP set")
    ELSE IF ips # {} /\ setID \notin sentIPSets
    THEN Panic("IP removed from unknown IP set")
    ELSE /\ pendingRemovedIPSets' =
                IF setID \in sentIPSets THEN pendingRemovedIPSets \cup {setID}
                ELSE pendingRemovedIPSets
         /\ pendingAddedIPSets' = pendingAddedIPSets \ {setID}
         /\ pendingAddedIPs' = DiscardKey(pendingAddedIPs, setID)
         /\ pendingRemovedIPs' =
                DiscardKey(pendingRemovedIPs, setID) \cup {<<setID, ip>> : ip \in ips}
         /\ Returns
         /\ UNCHANGED <<policyPending, profilePending, endpointPending, hostIPPending,
                        ipPoolPending, pendingNotReady, configPending, sentVars>>

\* ruleScanner.OnSelectorActive
OnSelectorActive(sel, ips) == IPSetAddedWithMembers(UniqueId(sel), ips)
\* ruleScanner.OnSelectorInactive calling OnIPSetRemoved before DeleteSelector
OnSelectorInactiveSetFirst(sel) ==
    IPSetRemovedBeforePurge(UniqueId(sel), Members(UniqueId(sel)))
\* ruleScanner.OnSelectorInactive: activeSelectorIndex.DeleteSelector, whose stop
\* callbacks take the set's IPs out one by one, then OnIPSetRemoved
OnSelectorInactive(sel) == IPSetRemovedAfterPurge(UniqueId(sel), Members(UniqueId(sel)))
\* ruleScanner.OnTagActive
OnTagActive(tag, ips) == IPSetAddedWithMembers(MakeUniqueID("t", tag), ips)
\* ruleScanner.OnTagInactive that leaves the tag's IP set in place
OnTagInactiveKeepsSet(tag) == Returns /\ UNCHANGED bufVars
\* ruleScanner.OnTagInactive: tagIndex.SetTagInactive, whose stop callbacks take
\* the set's IPs out one by one, then OnIPSetRemoved
OnTagInactive(tag) ==
    IPSetRemovedAfterPurge(MakeUniqueID("t", tag), Members(TagIPSetID(tag)))

\* A rule-scanner event was delivered; the member calculator now holds ips in
\* the set.
WiringHistory(call, setID, ips) ==
    /\ CalledHistory(call)
    /\ upMembers' = MapPut(upMembers, setID, ips)
    /\ UNCHANGED <<downMembers, batch, replay>>

NextScanner ==
    /\ fault = "none"
    /\ \/ \E sel \in Selectors, ips \in SUBSET Addrs :
            /\ OnSelectorActive(sel, ips)
            /\ WiringHistory(<<"OnSelectorActive", sel>>, UniqueId(sel), ips)
       \/ \E sel \in Selectors :
            /\ OnSelectorInactive(sel)
            /\ WiringHistory(<<"OnSelectorInactive", sel>>, UniqueId(sel), {})
       \/ \E tag \in Tags, ips \in SUBSET Addrs :
            /\ OnTagActive(tag, ips)
            /\ WiringHistory(<<"OnTagActive", tag>>, MakeUniqueID("t", tag), ips)
       \/ \E tag \in Tags :
            /\ OnTagInactive(tag)
            /\ WiringHistory(<<"OnTagInactive", tag>>, MakeUniqueID("t", tag), {})
       \/ Flush /\ Flushed

SpecScanner == Init /\ [][NextScanner]_vars

\* the IP sets of the selectors and tags whose last rule-scanner event is Active
ActiveIPSets ==
    {UniqueId(sel) : sel \in {x \in Selectors : <<"OnSelectorActive", x>> \in upstream.Scanned}}
    \cup {TagIPSetID(tag) : tag \in {x \in Tags : <<"OnTagActive", x>> \in upstream.Scanned}}

\* C16: after every flush the sent IP sets, and the IP sets the emitted messages
\* leave declared, are those of the selectors and tags whose last rule-scanner
\* event is Active.
C16_SentIffActive ==
    (lastOp = "Flush" /\ fault = "none") =>
        /\ sentIPSets = ActiveIPSets
        /\ declared.IPSets = ActiveIPSets

\* A flush that sent the removal of a selector's set and the update of a tag's
\* set, with another selector's set staying sent.
C16_Witness ==
    /\ lastOp = "Flush" /\ fault = "none"
    /\ \E i, j \in 1..Len(out) :
          /\ out[i].type = "IPSetUpdate" /\ out[i].id = TagIPSetID("tag1")
          /\ out[j].type = "IPSetRemove"
          /\ \E sel \in Selectors :
                UniqueId(sel) \in sentIPSets \cap sentBefore.IPSets /\ UniqueId(sel) # out[j].id
(***************************************************************************)
(* The dispatchers and the hostname filter (calc_graph.go).                *)
(***************************************************************************)
FilterHostnames == {"localhost", "other", ""}
EndpointKeyTypes == {"model.WorkloadEndpointKey", "model.HostEndpointKey"}
HostIPKey(host) == [kind |-> "HostIPKey", Hostname |-> host]

\* the updates the datastore may deliver: endpoints of several hosts, and keys
\* of other types, some with a host name of their own; deletions have a nil value
Updates ==
    {Update("model.WorkloadEndpointKey", WorkloadEndpointKey(h, "orch", wl, "ep1"), v) :
        h \in FilterHostnames, wl \in {"wl1", "wl2"}, v \in {Nil, "value"}}
    \cup {Update("model.HostEndpointKey", HostEndpointKey(h, ep), v) :
        h \in FilterHostnames, ep \in {"eth0", "eth1"}, v \in {Nil, "value"}}
    \cup {Update("model.HostIPKey", HostIPKey(h), v) : h \in FilterHostnames, v \in {Nil, "value"}}
    \cup {Update("model.PolicyKey", k, v) : k \in PolicyKeys, v \in {Nil, "value"}}
    \cup {Update("model.IPPoolKey", IPPoolKey(n), v) : n \in PoolNets, v \in {Nil, "value"}}

\* endpointHostnameFilter.OnUpdate passing every host endpoint
FilterWorkloadsOnly(hostname, update) ==
    update.KeyType = "model.WorkloadEndpointKey" /\ update.Key.Hostname # hostname

\* endpointHostnameFilter.OnUpdate: the filterOut it returns
endpointHostnameFilterOnUpdate(hostname, update) ==
    CASE update.KeyType = "model.WorkloadEndpointKey" -> update.Key.Hostname # hostname
      [] update.KeyType = "model.HostEndpointKey" -> update.Key.Hostname # hostname
      [] OTHER -> FALSE

\* The Register calls of NewCalculationGraph, in the order it makes them.  The
\* key types of the handlers outside calc_graph.go are those the components
\* consume.
Registrations ==
    <<[disp |-> "allUpd", keyTypes |-> EndpointKeyTypes, handler |-> "localEndpointDispatcher"],
      [disp |-> "localEndpoint", keyTypes |-> EndpointKeyTypes, handler |-> "endpointHostnameFilter"],
      [disp |-> "localEndpoint", keyTypes |-> EndpointKeyTypes, handler |-> "activeRulesCalc"],
      [disp |-> "allUpd",
       keyTypes |-> {"model.PolicyKey", "model.ProfileRulesKey", "model.ProfileLabelsKey"},
       handler |-> "activeRulesCalc"],
      [disp |-> "allUpd", keyTypes |-> EndpointKeyTypes \cup {"model.ProfileLabelsKey"},
       handler |-> "activeSelectorIndex"],
      [disp |-> "allUpd", keyTypes |-> EndpointKeyTypes \cup {"model.ProfileTagsKey"},
       handler |-> "tagIndex"],
      [disp |-> "allUpd", keyTypes |-> EndpointKeyTypes, handler |-> "memberCalc"],
      [disp |-> "allUpd", keyTypes |-> {"model.PolicyKey"}, handler |-> "polResolver"],
      [disp |-> "localEndpoint", keyTypes |-> EndpointKeyTypes, handler |-> "polResolver"],
      [disp |-> "allUpd", keyTypes |-> {"model.HostIPKey", "model.IPPoolKey"},
       handler |-> "hostIPPassthru"],
      [disp |-> "allUpd",
       keyTypes |-> {"model.GlobalConfigKey", "model.HostConfigKey", "model.ReadyFlagKey"},
       handler |-> "configBatcher"]>>

\* the handlers a dispatcher holds for a key type, in registration order
HandlersOf(disp, keyType) ==
    LET Mine(r) == r.disp = disp /\ keyType \in r.keyTypes
        regs == SelectSeq(Registrations, Mine)
    IN  [i \in 1..Len(regs) |-> regs[i].handler]

\* the handlers that see local endpoints only
LocalOnlyHandlers == {"activeRulesCalc", "polResolver"}

\* What Dispatcher.OnUpdate returns to the dispatcher it is registered with as a
\* handler, after one of its own handlers has filtered the update out: FALSE, or
\* that handler's filterOut.  The dispatcher is built with one of the two.
DispatcherReturns == {"false", "filterOut"}

\* What a handler returns as filterOut.  The local-endpoint dispatcher returns
\* what the dispatcher was built to return; the handlers outside
\* calc_graph.go filter nothing out.
FilterOutOf(handler, hostname, update) ==
    CASE handler = "endpointHostnameFilter" -> endpointHostnameFilterOnUpdate(hostname, update)
      [] handler = "localEndpointDispatcher" ->
            /\ localEndpointFilter.nested = "filterOut"
            /\ endpointHostnameFilterOnUpdate(hostname, update)
      [] OTHER -> FALSE

\* Dispatcher.OnUpdate: the handlers are called in registration order until one
\* filters the update out; the result is the sequence of <<dispatcher, handler>>
\* calls made, those of a nested dispatcher included.
RECURSIVE Dispatch(_, _, _, _)
Dispatch(disp, handlers, hostname, update) ==
    IF handlers = <<>> THEN <<>>
    ELSE LET h == Head(handlers)
             nested == IF h = "localEndpointDispatcher"
                       THEN Dispatch("localEndpoint",
                                     HandlersOf("localEndpoint", update.KeyType),
                                     hostname, update)
                       ELSE <<>>
         IN  <<<<disp, h>>>> \o nested \o
             (IF FilterOutOf(h, hostname, update) THEN <<>>
              ELSE Dispatch(disp, Tail(handlers), hostname, update))

\* allUpdDispatcher.OnUpdate(update)
OnUpdate(update) ==
    /\ localEndpointFilter' =
          [hostname |-> localEndpointFilter.hostname,
           update |-> update,
           filterOut |-> endpointHostnameFilterOnUpdate(localEndpointFilter.hostname, update),
           delivered |-> Dispatch("allUpd", HandlersOf("allUpd", update.KeyType),
                                  localEndpointFilter.hostname, update),
           nested |-> localEndpointFilter.nested]
    /\ UNCHANGED <<bufVars, fault, out, lastOp, prevFlush, sentBefore, notReadyCalled,
                   batch, upstream, declared, declaredBefore, upMembers, downMembers, poc,
                   replay, logrus, logging>>

\* NewCalculationGraph for any host name, with either dispatcher
InitDispatch ==
    /\ InitEventSequencer
    /\ \E h \in FilterHostnames, r \in DispatcherReturns :
          localEndpointFilter = [NewEndpointHostnameFilter(h) EXCEPT !.nested = r]
    /\ poc = NewPolicySorter
    /\ logrus = StandardLogger
    /\ logging = NoLogging

NextDispatch == \E update \in Updates : OnUpdate(update)

SpecDispatch == InitDispatch /\ [][NextDispatch]_vars

\* the update is about an endpoint of another host than the filter's
RemoteEndpoint(f) ==
    f.update.KeyType \in EndpointKeyTypes /\ f.update.Key.Hostname # f.hostname

\* C17: the filter returns filterOut = TRUE exactly for the workload and host
\* endpoints of another host, and no handler of the local-endpoint dispatcher
\* behind the filter is called with such an endpoint.
C17_HostnameFilter ==
    localEndpointFilter.update.KeyType # "none" =>
        /\ localEndpointFilter.filterOut <=> RemoteEndpoint(localEndpointFilter)
        /\ \A i \in 1..Len(localEndpointFilter.delivered) :
              (/\ localEndpointFilter.delivered[i][1] = "localEndpoint"
               /\ localEndpointFilter.delivered[i][2] \in LocalOnlyHandlers)
                  => ~RemoteEndpoint(localEndpointFilter)

\* A host endpoint of another host was dispatched: the filter was called and
\* filtered it out.
C17_Witness ==
    /\ localEndpointFilter.update.KeyType = "model.HostEndpointKey"
    /\ RemoteEndpoint(localEndpointFilter)
    /\ localEndpointFilter.filterOut
    /\ \E i \in 1..Len(localEndpointFilter.delivered) :
          localEndpointFilter.delivered[i] = <<"localEndpoint", "endpointHostnameFilter">>
(***************************************************************************)
(* PolicySorter (calc_graph.go).                                           *)
(***************************************************************************)
\* Policy.Order, a *float64: nil, or a pointer to a value.  obj tells two
\* allocations holding the same value apart.
NilOrder == [nil |-> TRUE, value |-> 0, obj |-> 0]
OrderPtr(value, obj) == [nil |-> FALSE, value |-> value, obj |-> obj]
Orders == {NilOrder} \cup {OrderPtr(v, o) : v \in {5, 10}, o \in {1, 2}}
\* *model.Policy, reduced to its Order; a nil value is a deletion
Policy(order) == [isNil |-> FALSE, Order |-> order]
NilPolicy == [isNil |-> TRUE, Order |-> NilOrder]

\* the names of the sorter's policies and their bytes
SorterNames == {"A", "AB", "B"}
NameBytes(name) ==
    CASE name = "A" -> <<65>> [] name = "AB" -> <<65, 66>> [] name = "B" -> <<66>>
\* Go's < on strings: bytewise, a proper prefix is smaller
RECURSIVE BytesLess(_, _)
BytesLess(a, b) ==
    IF b = <<>> THEN FALSE
    ELSE IF a = <<>> THEN TRUE
    ELSE IF Head(a) # Head(b) THEN Head(a) < Head(b)
    ELSE BytesLess(Tail(a), Tail(b))
StringLess(a, b) == BytesLess(NameBytes(a), NameBytes(b))

\* PolicyByOrder.Less putting a nil order before the numeric orders
LessNilFirst(x, y) ==
    LET bothNil == x.Value.Order.nil /\ y.Value.Order.nil
        bothSet == ~x.Value.Order.nil /\ ~y.Value.Order.nil
        ordersEqual == bothNil \/ (bothSet /\ x.Value.Order.value = y.Value.Order.value)
    IN  IF ordersEqual THEN StringLess(x.Key.Name, y.Key.Name)
        ELSE IF x.Value.Order.nil THEN TRUE
        ELSE IF y.Value.Order.nil THEN FALSE
        ELSE x.Value.Order.value < y.Value.Order.value

\* PolicyByOrder.Less without the tie-break on the name
LessByOrderOnly(x, y) ==
    LET bothNil == x.Value.Order.nil /\ y.Value.Order.nil
        bothSet == ~x.Value.Order.nil /\ ~y.Value.Order.nil
        ordersEqual == bothNil \/ (bothSet /\ x.Value.Order.value = y.Value.Order.value)
    IN  IF ordersEqual THEN FALSE
        ELSE IF x.Value.Order.nil THEN FALSE
        ELSE IF y.Value.Order.nil THEN TRUE
        ELSE x.Value.Order.value < y.Value.Order.value

\* PolicyByOrder.Less, on two PolKV
Less(x, y) ==
    LET bothNil == x.Value.Order.nil /\ y.Value.Order.nil
        bothSet == ~x.Value.Order.nil /\ ~y.Value.Order.nil
        ordersEqual == bothNil \/ (bothSet /\ x.Value.Order.value = y.Value.Order.value)
    IN  IF ordersEqual THEN StringLess(x.Key.Name, y.Key.Name)
        ELSE IF x.Value.Order.nil THEN FALSE
        ELSE IF y.Value.Order.nil THEN TRUE
        ELSE x.Value.Order.value < y.Value.Order.value

\* PolKV{Key: k, Value: v} for every policy of the tier
PolKVs(policies) == {[Key |-> k, Value |-> policies[k]] : k \in DOMAIN policies}

\* sort.Sort(PolicyByOrder(s)): an arrangement in which no element is Less than
\* an earlier one; any arrangement should Less admit none
SortSort(S) ==
    LET sorted == {p \in Perms(S) :
                      \A i, j \in 1..Cardinality(S) : i < j => ~Less(p[j], p[i])}
    IN  IF sorted = {} THEN Perms(S) ELSE sorted

\* PolicySorter.OnUpdate that deletes a stored policy without reporting it
PolicySorterOnUpdateQuietDelete(keyType, key, value) ==
    /\ poc' =
          IF keyType # "model.PolicyKey"
          THEN [poc EXCEPT !.op = "OnUpdate", !.dirty = FALSE]
          ELSE LET present == key \in DOMAIN poc.tier.Policies IN
               IF ~value.isNil
               THEN [tier |-> [poc.tier EXCEPT !.Policies = MapPut(@, key, value)],
                     op |-> "OnUpdate",
                     dirty |-> (~present \/ poc.tier.Policies[key].Order # value.Order)]
               ELSE [tier |-> [poc.tier EXCEPT !.Policies = MapDelete(@, key)],
                     op |-> "OnUpdate",
                     dirty |-> FALSE]
    /\ UNCHANGED <<bufVars, fault, out, lastOp, prevFlush, sentBefore, notReadyCalled,
                   batch, upstream, declared, declaredBefore, upMembers, downMembers,
                   localEndpointFilter, replay, logrus,
                   logging>>

\* PolicySorter.OnUpdate
PolicySorterOnUpdate(keyType, key, value) ==
    /\ poc' =
          IF keyType # "model.PolicyKey"
          THEN [poc EXCEPT !.op = "OnUpdate", !.dirty = FALSE]
          ELSE LET present == key \in DOMAIN poc.tier.Policies IN
               IF ~value.isNil
               THEN [tier |-> [poc.tier EXCEPT !.Policies = MapPut(@, key, value)],
                     op |-> "OnUpdate",
                     dirty |-> (~present \/ poc.tier.Policies[key].Order # value.Order)]
               ELSE [tier |-> [poc.tier EXCEPT !.Policies = MapDelete(@, key)],
                     op |-> "OnUpdate",
                     dirty |-> present]
    /\ UNCHANGED <<bufVars, fault, out, lastOp, prevFlush, sentBefore, notReadyCalled,
                   batch, upstream, declared, declaredBefore, upMembers, downMembers,
                   localEndpointFilter, replay, logrus,
                   logging>>

\* PolicySorter.Sorted, at the log level given.  At debug level the orders are
\* dereferenced for the log line, a nil order included.
Sorted(debug) ==
    /\ UNCHANGED <<bufVars, out, lastOp, prevFlush, sentBefore, notReadyCalled,
                   batch, upstream, declared, declaredBefore, upMembers, downMembers,
                   localEndpointFilter, replay, logrus,
                   logging>>
    /\ IF debug /\ \E k \in DOMAIN poc.tier.Policies : poc.tier.Policies[k].Order.nil
       THEN /\ fault' = "invalid memory address or nil pointer dereference"
            /\ \E p \in Perms(PolKVs(poc.tier.Policies)) :
                  poc' = [poc EXCEPT !.tier.OrderedPolicies = p, !.op = "Sorted"]
       ELSE /\ fault' = fault
            /\ \E p \in SortSort(PolKVs(poc.tier.Policies)) :
                  poc' = [poc EXCEPT !.tier.OrderedPolicies = p, !.op = "Sorted"]

NextSorter ==
    /\ fault = "none"
    /\ \/ \E n \in SorterNames, o \in Orders :
            PolicySorterOnUpdate("model.PolicyKey", [Name |-> n], Policy(o))
       \/ \E n \in SorterNames : PolicySorterOnUpdate("model.PolicyKey", [Name |-> n], NilPolicy)
       \/ PolicySorterOnUpdate("model.HostIPKey", HostIPKey("localhost"), Policy(NilOrder))
       \/ \E debug \in BOOLEAN : Sorted(debug)

SpecSorter == Init /\ [][NextSorter]_vars

\* the names in ascending order
NameRank(name) == CASE name = "A" -> 1 [] name = "AB" -> 2 [] name = "B" -> 3
\* x comes before y: by order ascending, a nil order after every number, and by
\* name among equal orders
ComesBefore(x, y) ==
    IF x.Value.Order.nil /\ y.Value.Order.nil THEN NameRank(x.Key.Name) < NameRank(y.Key.Name)
    ELSE IF x.Value.Order.nil THEN FALSE
    ELSE IF y.Value.Order.nil THEN TRUE
    ELSE \/ x.Value.Order.value < y.Value.Order.value
         \/ /\ x.Value.Order.value = y.Value.Order.value
            /\ NameRank(x.Key.Name) < NameRank(y.Key.Name)

\* C18: what Sorted returns holds every stored policy once, by order ascending
\* with the nil orders last, and by name ascending among equal orders.
C18_SortedByOrderThenName ==
    (poc.op = "Sorted" /\ fault = "none") =>
        LET r == poc.tier.OrderedPolicies IN
        /\ Len(r) = Cardinality(DOMAIN poc.tier.Policies)
        /\ {r[i] : i \in 1..Len(r)} = PolKVs(poc.tier.Policies)
        /\ \A i, j \in 1..Len(r) : i < j => ComesBefore(r[i], r[j])

\* Sorted has returned three policies: two of one order, by name, and after them
\* one without order.
C18_Witness ==
    /\ poc.op = "Sorted" /\ fault = "none"
    /\ Len(poc.tier.OrderedPolicies) = 3
    /\ ~poc.tier.OrderedPolicies[1].Value.Order.nil
    /\ ~poc.tier.OrderedPolicies[2].Value.Order.nil
    /\ poc.tier.OrderedPolicies[1].Value.Order.value = poc.tier.OrderedPolicies[2].Value.Order.value
    /\ poc.tier.OrderedPolicies[3].Value.Order.nil

(***************************************************************************)
(* Every callback, on single objects: the coalescing runs with the         *)
(* datastore-status and configuration callbacks added.                     *)
(***************************************************************************)
NextCallbacks ==
    \/ NextCoalesce
    \/ /\ fault = "none"
       /\ Room(MaxBatchCoalesce)
       /\ \/ OnDatastoreNotReady /\ Recorded(<<"OnDatastoreNotReady">>)
          \/ \E g \in {Nil, "cfg1"} :
                OnConfigUpdate(g, "cfg1") /\ Recorded(<<"OnConfigUpdate", g, "cfg1">>)

SpecCallbacks == Init /\ [][NextCallbacks]_vars

\* C19: no On* callback hands a message to Callback or changes a sent set: a step
\* that is a callback (one that returns or one that faults) leaves the output
\* empty and every sent set as it was; only Flush emits and updates the sent view.
C19_CallbackOnlyInFlush ==
    [][lastOp' = "On" => (out' = <<>> /\ sentVars' = sentVars)]_vars

\* A callback has just run on a buffer whose sent view holds objects of every kind
\* the callback could have touched, with a removal pending and nothing emitted.
C19_Witness ==
    /\ lastOp = "On"
    /\ out = <<>>
    /\ sentIPSets # {} /\ sentPolicies # {} /\ sentHostIPs # {}
    /\ SentView = sentBefore
    /\ pendingHostIPDeletes # {}
    /\ pendingRemovedIPSets # {}

(***************************************************************************)
(* Two sequencers given the same calls: the first is run and its calls and *)
(* the output of each of its flushes are kept; a new sequencer is then     *)
(* built and given the same calls, in the same order.                      *)
(***************************************************************************)
ReplayCalls ==
    {<<"OnIPSetAdded", s>> : s \in SetIDs} \cup {<<"OnIPSetRemoved", OneSet>>}
    \cup {<<"OnIPAdded", OneSet, a>> : a \in Addrs} \cup {<<"OnIPRemoved", OneSet, OneAddr>>}
    \cup {<<"OnDatastoreNotReady">>}
    \cup {<<"OnConfigUpdate", g, "cfg1">> : g \in {Nil, "cfg1"}}
    \cup {<<"OnPolicyActive", OnePolicy, OneRules>>, <<"OnPolicyInactive", OnePolicy>>}
    \cup {<<"OnProfileActive", OneProfile, OneRules>>, <<"OnProfileInactive", OneProfile>>}
    \cup {<<"OnEndpointTierUpdate", wlKey, ep, TiersFor(ep)>> :
                ep \in {NilEndpoint, OneEndpoint(wlKey)}}
    \cup {<<"OnHostIPUpdate", OneHost, OneAddr>>, <<"OnHostIPRemove", OneHost>>}
    \cup {<<"OnIPPoolUpdate", IPPoolKey(OneNet), IPPool(OneNet, TRUE)>>,
          <<"OnIPPoolRemove", IPPoolKey(OneNet)>>}
    \cup {<<"Flush">>}

\* What the sequencer's surroundings answer during a call.  In a Flush: the
\* results of the two config.UpdateFrom calls, "none" when flushConfigUpdate
\* returns before it calls.  In OnIPPoolUpdate: whether the build's delete of the
\* unhashable key from a non-empty set panics.
NoUpdateFrom == <<"none", "none">>
UpdateFromCalls(call) ==
    IF call[1] = "Flush" /\ pendingGlobalConfig # Nil
    THEN UpdateFromResults \X UpdateFromResults
    ELSE IF /\ call[1] = "OnIPPoolUpdate"
            /\ DiscardMayPanic(pendingIPPoolDeletes, OnIPPoolUpdateDiscarded(call[2]))
    THEN {<<"panics", "none">>, <<"returns", "none">>}
    ELSE {NoUpdateFrom}

\* flushConfigUpdate, the configuration module answering with the results
flushConfigUpdateFor(results) ==
    IF pendingGlobalConfig = Nil
    THEN [fatal |-> FALSE, msgs |-> <<>>, cleared |-> FALSE]
    ELSE flushConfigUpdateWith(results[1], results[2])

\* The sequencer is given the call.
Apply(call, results) ==
    \/ call[1] = "OnIPSetAdded" /\ OnIPSetAdded(call[2])
    \/ call[1] = "OnIPSetRemoved" /\ OnIPSetRemoved(call[2])
    \/ call[1] = "OnIPAdded" /\ OnIPAdded(call[2], call[3])
    \/ call[1] = "OnIPRemoved" /\ OnIPRemoved(call[2], call[3])
    \/ call[1] = "OnDatastoreNotReady" /\ OnDatastoreNotReady
    \/ call[1] = "OnConfigUpdate" /\ OnConfigUpdate(call[2], call[3])
    \/ call[1] = "OnPolicyActive" /\ OnPolicyActive(call[2], call[3])
    \/ call[1] = "OnPolicyInactive" /\ OnPolicyInactive(call[2])
    \/ call[1] = "OnProfileActive" /\ OnProfileActive(call[2], call[3])
    \/ call[1] = "OnProfileInactive" /\ OnProfileInactive(call[2])
    \/ call[1] = "OnEndpointTierUpdate" /\ OnEndpointTierUpdate(call[2], call[3], call[4])
    \/ call[1] = "OnHostIPUpdate" /\ OnHostIPUpdate(call[2], call[3])
    \/ call[1] = "OnHostIPRemove" /\ OnHostIPRemove(call[2])
    \/ /\ call[1] = "OnIPPoolUpdate"
       /\ OnIPPoolUpdate(call[2], call[3])
       /\ (fault' # fault) <=> (results[1] = "panics")
    \/ call[1] = "OnIPPoolRemove" /\ OnIPPoolRemove(call[2])
    \/ call[1] = "Flush" /\ FlushWith(flushConfigUpdateFor(results))

AppliedHistory(call) ==
    /\ IF call[1] = "Flush" THEN FlushedHistory
       ELSE CalledHistory(call) /\ UNCHANGED batch
    /\ UNCHANGED <<upMembers, downMembers>>

\* The first sequencer is given one more call.
FirstCall(call) ==
    /\ ~replay.second
    /\ Len(replay.calls) < MaxReplayCalls
    /\ \E results \in UpdateFromCalls(call) :
          /\ Apply(call, results)
          /\ replay' = [replay EXCEPT
                            !.calls = Append(@, call),
                            !.results = Append(@, results),
                            !.outs = IF call[1] = "Flush" THEN Append(@, out') ELSE @]
    /\ AppliedHistory(call)

\* NewEventBuffer: the second sequencer, built once the first has flushed.
NewEventBuffer ==
    /\ ~replay.second
    /\ lastOp = "Flush"
    /\ replay' = [replay EXCEPT !.second = TRUE]
    /\ pendingAddedIPSets' = {}
    /\ pendingRemovedIPSets' = {}
    /\ pendingAddedIPs' = {}
    /\ pendingRemovedIPs' = {}
    /\ pendingPolicyUpdates' = EmptyMap
    /\ pendingPolicyDeletes' = {}
    /\ pendingProfileUpdates' = EmptyMap
    /\ pendingProfileDeletes' = {}
    /\ pendingEndpointUpdates' = EmptyMap
    /\ pendingEndpointTierUpdates' = EmptyMap
    /\ pendingEndpointDeletes' = {}
    /\ pendingHostIPUpdates' = EmptyMap
    /\ pendingHostIPDeletes' = {}
    /\ pendingIPPoolUpdates' = EmptyMap
    /\ pendingIPPoolDeletes' = {}
    /\ pendingNotReady' = FALSE
    /\ pendingGlobalConfig' = Nil
    /\ pendingHostConfig' = Nil
    /\ sentIPSets' = {}
    /\ sentPolicies' = {}
    /\ sentProfiles' = {}
    /\ sentEndpoints' = {}
    /\ sentHostIPs' = {}
    /\ sentIPPools' = {}
    /\ fault' = "none"
    /\ out' = <<>>
    /\ lastOp' = "Init"
    /\ prevFlush' = "none"
    /\ sentBefore' = [IPSets |-> {}, Policies |-> {}, Profiles |-> {}, Endpoints |-> {},
                      HostIPs |-> {}, IPPools |-> {}]
    /\ notReadyCalled' = FALSE
    /\ batch' = <<>>
    /\ upstream' = [IPSets |-> {}, Policies |-> EmptyMap, Profiles |-> EmptyMap,
                    Endpoints |-> EmptyMap, Scanned |-> {},
                   HostIPs |-> {}, IPPools |-> {}]
    /\ declared' = [IPSets |-> {}, Policies |-> {}, Profiles |-> {}, Endpoints |-> {},
                  HostIPs |-> {}, IPPools |-> {}]
    /\ declaredBefore' = [IPSets |-> {}, Policies |-> {}, Profiles |-> {}, Endpoints |-> {},
                  HostIPs |-> {}, IPPools |-> {}]
    /\ UNCHANGED <<upMembers, downMembers, graphVars>>

\* The second sequencer is given the next of the first one's calls; it is of the
\* same build, and its configuration module, in the state the first one's was
\* in, answers alike.
SecondCall ==
    /\ replay.second
    /\ replay.done < Len(replay.calls)
    /\ Apply(replay.calls[replay.done + 1], replay.results[replay.done + 1])
    /\ AppliedHistory(replay.calls[replay.done + 1])
    /\ replay' = [replay EXCEPT !.done = @ + 1]

NextReplay ==
    /\ fault = "none"
    /\ \/ \E call \in ReplayCalls : FirstCall(call)
       \/ NewEventBuffer
       \/ SecondCall

SpecReplay == Init /\ [][NextReplay]_vars

\* The step of the flush schedule that emits messages of the type.
ScheduleGroup(t) ==
    CASE t = "DatastoreNotReady" -> "flushReadyFlag"
      [] t = "ConfigUpdate" -> "flushConfigUpdate"
      [] t = "IPSetUpdate" -> "flushAddedIPSets"
      [] t = "IPSetDeltaUpdate" -> "flushIPSetDeltas"
      [] t = "ActivePolicyUpdate" -> "flushPolicyUpdates"
      [] t = "ActiveProfileUpdate" -> "flushProfileUpdates"
      [] t \in EndpointUpdateTypes -> "flushEndpointTierUpdates"
      [] t \in EndpointRemoveTypes -> "flushEndpointTierDeletes"
      [] t = "ActiveProfileRemove" -> "flushProfileDeletes"
      [] t = "ActivePolicyRemove" -> "flushPolicyDeletes"
      [] t = "IPSetRemove" -> "flushRemovedIPSets"
      [] t = "HostMetadataRemove" -> "flushHostIPDeletes"
      [] t = "HostMetadataUpdate" -> "flushHostIPUpdates"
      [] t = "IPAMPoolRemove" -> "flushIPPoolDeletes"
      [] t = "IPAMPoolUpdate" -> "flushIPPoolUpdates"

\* The messages of an output as a multiset, and its groups in order.
MessageBag(msgs) ==
    [m \in {msgs[i] : i \in 1..Len(msgs)} |-> Cardinality({i \in 1..Len(msgs) : msgs[i] = m})]
GroupOrder(msgs) == [i \in 1..Len(msgs) |-> ScheduleGroup(msgs[i].type)]

\* A message whose lists of addresses are taken as multisets of addresses.
AddressBag(list) ==
    [a \in Listed(list) |-> Cardinality({i \in 1..Len(list) : list[i] = a})]
Unordered(m) ==
    [m EXCEPT !.members = AddressBag(@), !.added = AddressBag(@), !.removed = AddressBag(@)]
UnorderedMessages(msgs) == [i \in 1..Len(msgs) |-> Unordered(msgs[i])]

\* How many of the first n calls are flushes.
FlushesIn(calls, n) == Cardinality({i \in 1..n : calls[i][1] = "Flush"})
\* What the first sequencer emitted in the flush that the second has just done.
FirstOut == replay.outs[FlushesIn(replay.calls, replay.done)]
SecondFlushed == replay.second /\ lastOp = "Flush"

\* C20 (as claimed): a second sequencer that starts empty and is given the calls
\* of the first, callbacks and flushes in the same order, emits in each flush the
\* same multiset of messages as the first did in the corresponding flush, with the
\* groups of the flush schedule in the same order; only the order inside a group
\* may differ.
C20_SameMessages ==
    SecondFlushed =>
        /\ fault = "none"
        /\ MessageBag(out) = MessageBag(FirstOut)
        /\ GroupOrder(out) = GroupOrder(FirstOut)

\* C20 (amended): the second sequencer, whose configuration module answers as the
\* first one's did, never faults and emits in each flush the messages that the
\* first emitted in the corresponding flush, as a multiset in which the addresses
\* that an IPSetUpdate or IPSetDeltaUpdate lists are taken without their order,
\* with the groups of the flush schedule in the same order: the order of the
\* messages inside a group and the order of the addresses inside a message may
\* differ, nothing else.
C20_SameCallsSameOutput ==
    /\ replay.second => fault = "none"
    /\ SecondFlushed =>
          /\ MessageBag(UnorderedMessages(out)) = MessageBag(UnorderedMessages(FirstOut))
          /\ GroupOrder(out) = GroupOrder(FirstOut)

\* The second sequencer has flushed the IPSetUpdate of a set with two members,
\* which lists them in the other order than the first sequencer's did.
C20_Witness ==
    /\ SecondFlushed
    /\ \E i \in 1..Len(out), j \in 1..Len(FirstOut) :
          /\ out[i].type = "IPSetUpdate" /\ FirstOut[j].type = "IPSetUpdate"
          /\ out[i].id = FirstOut[j].id
          /\ Len(out[i].members) = 2
          /\ out[i].members # FirstOut[j].members
          /\ Listed(out[i].members) = Listed(FirstOut[j].members)

(***************************************************************************)
(* PolicySorter.OnUpdate: when it reports dirty.                           *)
(***************************************************************************)
\* The updates the sorter is given in these runs: key type, key and value.
SorterUpdates ==
    {<<"model.PolicyKey", [Name |-> n], Policy(o)>> : n \in SorterNames, o \in Orders}
    \cup {<<"model.PolicyKey", [Name |-> n], NilPolicy>> : n \in SorterNames}
    \cup {<<"model.HostIPKey", HostIPKey("localhost"), Policy(NilOrder)>>}

\* The sorter given updates only.
NextSorterUpdates ==
    /\ fault = "none"
    /\ \E u \in SorterUpdates : PolicySorterOnUpdate(u[1], u[2], u[3])

SpecSorterUpdates == Init /\ [][NextSorterUpdates]_vars

\* Two orders differ: one is nil and the other is not, or their numbers differ.
OrderDiffers(a, b) == a.nil # b.nil \/ (~a.nil /\ ~b.nil /\ a.value # b.value)

\* What the claim says of a step that is OnUpdate(u), from the map before it.
DirtyAsClaimed(u) ==
    LET policies == poc.tier.Policies
        isPolicyKey == u[1] = "model.PolicyKey"
        stored == isPolicyKey /\ u[2] \in DOMAIN policies
    IN  /\ (isPolicyKey /\ ~u[3].isNil /\ ~stored) => poc'.dirty
        /\ (stored /\ u[3].isNil) => poc'.dirty
        /\ (stored /\ ~u[3].isNil /\ OrderDiffers(policies[u[2]].Order, u[3].Order))
                => poc'.dirty
        /\ (isPolicyKey /\ u[3].isNil /\ ~stored)
                => (~poc'.dirty /\ poc'.tier.Policies = policies)
        /\ ~isPolicyKey => (~poc'.dirty /\ poc'.tier.Policies = policies)

\* C21: OnUpdate returns dirty = TRUE when the update adds a policy key that was
\* not stored, deletes a stored one, or replaces a stored policy by one of another
\* order; it returns dirty = FALSE and leaves the policy map as it was for a delete
\* of an unknown policy key and for an update whose key is not a policy key.
C21_DirtyOnAddDeleteReorder ==
    [][\A u \in SorterUpdates :
          PolicySorterOnUpdate(u[1], u[2], u[3]) => DirtyAsClaimed(u)]_vars

\* OnUpdate has just reported dirty with two policies stored.
C21_Witness ==
    /\ poc.op = "OnUpdate" /\ poc.dirty
    /\ Cardinality(DOMAIN poc.tier.Policies) = 2

(***************************************************************************)
(* The cluster-wide (passthrough) messages of a flush.                     *)
(***************************************************************************)
\* Runs over one IP set, two hosts and two IP pools.
NextPassthru ==
    /\ fault = "none"
    /\ \/ OnIPSetAdded(OneSet) /\ Unrecorded(<<"OnIPSetAdded", OneSet>>)
       \/ OnIPSetRemoved(OneSet) /\ Unrecorded(<<"OnIPSetRemoved", OneSet>>)
       \/ \E h \in Hostnames :
            OnHostIPUpdate(h, OneAddr) /\ Unrecorded(<<"OnHostIPUpdate", h, OneAddr>>)
       \/ \E h \in Hostnames : OnHostIPRemove(h) /\ Unrecorded(<<"OnHostIPRemove", h>>)
       \/ \E n \in PoolNets :
            OnIPPoolUpdate(IPPoolKey(n), IPPool(n, TRUE))
            /\ Unrecorded(<<"OnIPPoolUpdate", IPPoolKey(n)>>)
       \/ \E n \in PoolNets :
            OnIPPoolRemove(IPPoolKey(n)) /\ Unrecorded(<<"OnIPPoolRemove", IPPoolKey(n)>>)
       \/ Flush /\ Flushed

SpecPassthru == Init /\ [][NextPassthru]_vars

\* The place of a passthrough message type in the flush schedule (0: none).
PassthruRank(t) ==
    CASE t = "HostMetadataRemove" -> 1
      [] t = "HostMetadataUpdate" -> 2
      [] t = "IPAMPoolRemove" -> 3
      [] t = "IPAMPoolUpdate" -> 4
      [] OTHER -> 0

\* C22: in every flush the passthrough messages come after every IPSetRemove, and
\* among themselves in the order HostMetadataRemove, HostMetadataUpdate,
\* IPAMPoolRemove, IPAMPoolUpdate.
C22_PassthruLastInOrder ==
    \A i, j \in 1..Len(out) :
        /\ (out[i].type = "IPSetRemove" /\ PassthruRank(out[j].type) > 0) => i < j
        /\ (i < j /\ PassthruRank(out[i].type) > 0 /\ PassthruRank(out[j].type) > 0)
                => PassthruRank(out[i].type) <= PassthruRank(out[j].type)

\* A flush that emitted an IPSetRemove and a message of each passthrough type.
C22_Witness ==
    /\ lastOp = "Flush"
    /\ Has("IPSetRemove")
    /\ Has("HostMetadataRemove") /\ Has("HostMetadataUpdate")
    /\ Has("IPAMPoolRemove") /\ Has("IPAMPoolUpdate")

(***************************************************************************)
(* The rule scanner, the indexes and the member calculator driving the     *)
(* sequencer: activations and deactivations alternate for each selector    *)
(* and tag, and matches change for the active ones only.                   *)
(***************************************************************************)
\* memberCalc.MatchStarted / MatchStopped for an endpoint whose IP enters / leaves
\* the set
MatchStarted(setID, ip) == OnIPAdded(setID, ip)
MatchStopped(setID, ip) == OnIPRemoved(setID, ip)

NextWiring ==
    /\ fault = "none"
    /\ \/ \E sel \in Selectors, ips \in SUBSET Addrs :
            /\ <<"OnSelectorActive", sel>> \notin upstream.Scanned
            /\ OnSelectorActive(sel, ips)
            /\ WiringHistory(<<"OnSelectorActive", sel>>, UniqueId(sel), ips)
       \/ \E sel \in Selectors :
            /\ <<"OnSelectorActive", sel>> \in upstream.Scanned
            /\ OnSelectorInactive(sel)
            /\ WiringHistory(<<"OnSelectorInactive", sel>>, UniqueId(sel), {})
       \/ \E tag \in Tags, ips \in SUBSET Addrs :
            /\ <<"OnTagActive", tag>> \notin upstream.Scanned
            /\ OnTagActive(tag, ips)
            /\ WiringHistory(<<"OnTagActive", tag>>, MakeUniqueID("t", tag), ips)
       \/ \E tag \in Tags :
            /\ <<"OnTagActive", tag>> \in upstream.Scanned
            /\ OnTagInactive(tag)
            /\ WiringHistory(<<"OnTagInactive", tag>>, MakeUniqueID("t", tag), {})
       \/ \E setID \in ActiveIPSets : \E ip \in Addrs \ Members(setID) :
            /\ MatchStarted(setID, ip)
            /\ WiringHistory(<<"OnIPAdded", setID, ip>>, setID, Members(setID) \cup {ip})
       \/ \E setID \in ActiveIPSets : \E ip \in Members(setID) :
            /\ MatchStopped(setID, ip)
            /\ WiringHistory(<<"OnIPRemoved", setID, ip>>, setID, Members(setID) \ {ip})
       \/ Flush /\ Flushed

SpecWiring == Init /\ [][NextWiring]_vars

\* C24: driven by alternating activations and deactivations of selectors and tags
\* and by match changes of the active ones, the sequencer never faults: every
\* active selector's and tag's set is sent or pending to be added, so no IP event
\* meets an unknown set; the IP events of a deactivation come before its
\* OnIPSetRemoved, so no pending IP is left for a set that is not active; and the
\* set of a tag has the id of the tag's match events.
C24_WiringNeverFaults ==
    /\ fault = "none"
    /\ ActiveIPSets \subseteq sentIPSets \cup pendingAddedIPSets
    /\ Keys(pendingAddedIPs) \cup Keys(pendingRemovedIPs) \subseteq ActiveIPSets
    /\ \A tag \in Tags : TagIPSetID(tag) = MakeUniqueID("t", tag)

\* A match has just started on a set that was sent, deactivated and activated
\* again before the flush.
C24_Witness ==
    /\ fault = "none" /\ lastOp = "On"
    /\ \E setID \in ActiveIPSets :
          /\ setID \in sentIPSets \cap pendingAddedIPSets
          /\ \E ip \in Addrs : <<setID, ip>> \in pendingAddedIPs

(***************************************************************************)
(* The members of an added IP set.                                         *)
(***************************************************************************)
\* The batch's calls OnIPSetAdded(X), and its IP events about ip in X after call j.
SetAdds(X) == {j \in 1..Len(batch) : batch[j] = <<"OnIPSetAdded", X>>}
IPEventsAfter(X, ip, j) ==
    {l \in (j + 1)..Len(batch) :
        batch[l] \in {<<"OnIPAdded", X, ip>>, <<"OnIPRemoved", X, ip>>}}
\* Among the events of positions E, the last one is an OnIPAdded.
EndsAdded(E) == E # {} /\ batch[Last(E)][1] = "OnIPAdded"

\* The IPs added to X after its most recent OnIPSetAdded and not removed later.
AddedSinceSetAdded(X) ==
    {ip \in Addrs : EndsAdded(IPEventsAfter(X, ip, Last(SetAdds(X))))}

\* After the most recent OnIPSetAdded(X), every OnIPRemoved(X, ip) removes an IP
\* that was added since and not removed again.
RemovesFollowAdds(X) ==
    \A ip \in Addrs : \A l \in IPEventsAfter(X, ip, Last(SetAdds(X))) :
        batch[l][1] = "OnIPRemoved" =>
            EndsAdded({k \in IPEventsAfter(X, ip, Last(SetAdds(X))) : k < l})

\* The IPSetUpdate messages of the flush about X.
SetUpdates(X) == {i \in 1..Len(out) : out[i].type = "IPSetUpdate" /\ out[i].id = X}

\* C25 (as claimed): the IPSetUpdate of a flush for X carries exactly the IPs for
\* which OnIPAdded(X, ip) was called after the most recent OnIPSetAdded(X) with no
\* later OnIPRemoved(X, ip).
C25_MembersAreAddsSinceSetAdded ==
    (lastOp = "Flush" /\ fault = "none") =>
        \A X \in SetIDs : \A i \in SetUpdates(X) :
            Lists(out[i].members, AddrStrings(AddedSinceSetAdded(X)))

\* C25 (amended): the same, for batches in which every OnIPRemoved(X, ip) after
\* the most recent OnIPSetAdded(X) removes an IP added since; the IP events that
\* preceded the OnIPSetAdded never appear in the IPSetUpdate, whatever the batch.
C25_MembersOfAddedSet ==
    (lastOp = "Flush" /\ fault = "none") =>
        \A X \in SetIDs : \A i \in SetUpdates(X) :
            /\ SetAdds(X) # {}
            /\ Listed(out[i].members) \subseteq
                    AddrStrings({ip \in Addrs : IPEventsAfter(X, ip, Last(SetAdds(X))) # {}})
            /\ RemovesFollowAdds(X) =>
                    Lists(out[i].members, AddrStrings(AddedSinceSetAdded(X)))

\* A flush that sent X with one member, of a batch in which an IP of X was
\* removed after the OnIPSetAdded(X), each removal following its add.
C25_Witness ==
    /\ lastOp = "Flush" /\ fault = "none"
    /\ \E X \in SetIDs : \E i \in SetUpdates(X) :
          /\ RemovesFollowAdds(X)
          /\ \E ip \in Addrs : \E l \in IPEventsAfter(X, ip, Last(SetAdds(X))) :
                batch[l][1] = "OnIPRemoved"
          /\ Len(out[i].members) = 1

(***************************************************************************)
(* Configuration updates.                                                  *)
(***************************************************************************)
NextConfig ==
    /\ fault = "none"
    /\ \/ \E g \in Configs \cup {Nil}, h \in Configs :
            Room(MaxBatchKeyed) /\ OnConfigUpdate(g, h)
            /\ Recorded(<<"OnConfigUpdate", g, h>>)
       \/ Room(MaxBatchKeyed) /\ OnDatastoreNotReady /\ Recorded(<<"OnDatastoreNotReady">>)
       \/ Room(MaxBatchKeyed) /\ OnPolicyActive(OnePolicy, OneRules)
            /\ Recorded(<<"OnPolicyActive", OnePolicy, OneRules>>)
       \/ Flush /\ Flushed

SpecConfig == Init /\ [][NextConfig]_vars

\* The batch's OnConfigUpdate calls.
ConfigCalls == {i \in 1..Len(batch) : batch[i][1] = "OnConfigUpdate"}
\* The ConfigUpdate messages of a sequence of messages.
ConfigUpdates(msgs) == SelectSeq(msgs, LAMBDA m : m.type = "ConfigUpdate")

\* The step is a flush that returns, with a pending global configuration and
\* the results g and h of the two UpdateFrom calls.
FlushedConfig(g, h) ==
    /\ pendingGlobalConfig # Nil
    /\ FlushWith(flushConfigUpdateWith(g, h))
    /\ fault' = "none"

\* What a flush does with a pending global configuration: one ConfigUpdate if
\* a result is changed and none otherwise, holding RawValues, and the pending
\* configuration is cleared in both cases.
ConfigFlushed ==
    \A g, h \in UpdateFromResults :
        FlushedConfig(g, h) =>
            /\ ConfigUpdates(out') =
                    IF g = "changed" \/ h = "changed"
                    THEN <<ConfigUpdate(RawValues(pendingGlobalConfig, pendingHostConfig))>>
                    ELSE <<>>
            /\ pendingGlobalConfig' = Nil /\ pendingHostConfig' = Nil

\* What a flush does without a pending global configuration: it calls no
\* UpdateFrom, emits no ConfigUpdate and leaves the pending host configuration.
NoConfigFlushed ==
    (lastOp' = "Flush" /\ pendingGlobalConfig = Nil) =>
        /\ ConfigUpdates(out') = <<>>
        /\ pendingGlobalConfig' = Nil /\ pendingHostConfig' = pendingHostConfig

\* The pending configuration is that of the last OnConfigUpdate since the
\* previous flush; a flush that returns leaves no pending global configuration.
PendingIsLastCall ==
    /\ (lastOp = "On" /\ ConfigCalls # {}) =>
            <<pendingGlobalConfig, pendingHostConfig>>
                = <<batch[Last(ConfigCalls)][2], batch[Last(ConfigCalls)][3]>>
    /\ (lastOp = "On" /\ ConfigCalls = {}) => pendingGlobalConfig = Nil
    /\ (lastOp = "Flush" /\ fault = "none") => pendingGlobalConfig = Nil

\* C26 (as claimed): after a flush the pending configuration is cleared, a message
\* emitted or not.
C26_PendingConfigCleared ==
    (lastOp = "Flush" /\ fault = "none") =>
        (pendingGlobalConfig = Nil /\ pendingHostConfig = Nil)

\* C26 (amended): a flush that returns emits a ConfigUpdate exactly when the last
\* OnConfigUpdate since the previous flush had a non-nil global configuration and
\* one of the two UpdateFrom calls reports changed; it emits at most one, holding
\* RawValues of that last call, and clears the pending configuration, a message
\* emitted or not.  Without a pending global configuration the flush emits no
\* ConfigUpdate and leaves the pending host configuration in place.
C26_ConfigUpdateIffChanged ==
    /\ [][ConfigFlushed /\ NoConfigFlushed]_vars
    /\ []PendingIsLastCall

\* A flush of a batch of two OnConfigUpdate calls that emitted the ConfigUpdate of
\* the second one.
C26_Witness ==
    /\ lastOp = "Flush" /\ fault = "none"
    /\ Cardinality(ConfigCalls) = 2
    /\ batch[Last(ConfigCalls)] # batch[Last(ConfigCalls \ {Last(ConfigCalls)})]
    /\ ConfigUpdates(out) =
          <<ConfigUpdate(RawValues(batch[Last(ConfigCalls)][2], batch[Last(ConfigCalls)][3]))>>

(***************************************************************************)
(* Tracked and untracked policies of a host endpoint.                      *)
(***************************************************************************)
\* OrderedPolicies of a tier: the policies of a set of keys in any order, each
\* with or without the do-not-track flag.
OrderedPoliciesOf(keys) ==
    UNION {{[i \in 1..Len(p) |-> PolKV(p[i], f[i])] : f \in [1..Len(p) -> BOOLEAN]} :
            p \in UNION {Perms(S) : S \in SUBSET keys}}

\* The filtered tiers an endpoint is given: none, one tier over three policies,
\* or two tiers over two policies.
TierInputs ==
    {<<>>}
    \cup {<<TierInfo("default", o)>> :
            o \in OrderedPoliciesOf(PolicyKeys \cup {[Name |-> "polC"]})}
    \cup {<<TierInfo("default", o1), TierInfo("tier2", o2)>> :
            o1 \in OrderedPoliciesOf(PolicyKeys), o2 \in OrderedPoliciesOf(PolicyKeys)}

NextTiers ==
    /\ fault = "none"
    /\ \/ \E tiers \in TierInputs :
            /\ OnEndpointTierUpdate(hostKey, OneEndpoint(hostKey), tiers)
            /\ Unrecorded(<<"OnEndpointTierUpdate", hostKey, OneEndpoint(hostKey), tiers>>)
       \/ /\ OnEndpointTierUpdate(hostKey, NilEndpoint, <<>>)
          /\ Unrecorded(<<"OnEndpointTierUpdate", hostKey, NilEndpoint, <<>>>>)
       \/ \E tiers \in {<<>>, OneTiers} :
            /\ OnEndpointTierUpdate(wlKey, OneEndpoint(wlKey), tiers)
            /\ Unrecorded(<<"OnEndpointTierUpdate", wlKey, OneEndpoint(wlKey), tiers>>)
       \/ Flush /\ Flushed

SpecTiers == Init /\ [][NextTiers]_vars

\* The places of a tier's policies that have the flag, and the tiers that have
\* such a policy.
Flagged(tier, flag) ==
    {j \in 1..Len(tier.OrderedPolicies) : tier.OrderedPolicies[j].DoNotTrack = flag}
TiersWith(tiers, flag) == {i \in 1..Len(tiers) : Flagged(tiers[i], flag) # {}}
\* The n-th smallest element of a set of numbers.
Nth(S, n) == CHOOSE i \in S : Cardinality({k \in S : k <= i}) = n

\* The emitted list holds, in the tiers' order, one tier for each filtered tier
\* that has a policy with the flag, and in it the names of exactly these
\* policies, in their order in OrderedPolicies.
SplitByFlag(tiers, emitted, flag) ==
    /\ Len(emitted) = Cardinality(TiersWith(tiers, flag))
    /\ \A n \in 1..Len(emitted) :
          LET tier == tiers[Nth(TiersWith(tiers, flag), n)]
              places == Flagged(tier, flag)
          IN  /\ emitted[n].Name = tier.Name
              /\ Len(emitted[n].Policies) = Cardinality(places)
              /\ \A m \in 1..Len(emitted[n].Policies) :
                    emitted[n].Policies[m] = tier.OrderedPolicies[Nth(places, m)].Key.Name

\* The HostEndpointUpdate messages of the flush.
HostEndpointUpdates == {i \in 1..Len(out) : out[i].type = "HostEndpointUpdate"}

\* C27: the HostEndpointUpdate of a flush holds every policy of the endpoint's
\* filtered tiers in exactly one list, Tiers without the do-not-track flag and
\* UntrackedTiers with it; inside an emitted tier the policies keep their order
\* of OrderedPolicies, and a tier without a policy of a kind is left out of that
\* kind's list.
C27_TrackedUntrackedSplit ==
    (lastOp = "Flush" /\ fault = "none") =>
        \A i \in HostEndpointUpdates :
            LET tiers == upstream.Endpoints[hostKey].tiers IN
            /\ SplitByFlag(tiers, out[i].body.Tiers, FALSE)
            /\ SplitByFlag(tiers, out[i].body.UntrackedTiers, TRUE)

\* A host endpoint was sent with two tiers: the first has a tracked policy
\* between two untracked ones, the second has untracked policies only.
C27_Witness ==
    /\ lastOp = "Flush" /\ fault = "none"
    /\ \E i \in HostEndpointUpdates :
          /\ Len(out[i].body.Tiers) = 1
          /\ Len(out[i].body.UntrackedTiers) = 2
          /\ Len(out[i].body.UntrackedTiers[1].Policies) = 1
          /\ out[i].body.UntrackedTiers[2].Name = "tier2"

(***************************************************************************)
(* PolicySorter.Sorted: completion, order and repeatability.               *)
(***************************************************************************)
\* C28: Sorted completes without a fault for every stored policy set, a set
\* with nil orders included, at every log level, debug included.
C28_SortedNeverFaults == poc.op = "Sorted" => fault = "none"

\* Less is a strict total order on the set S of PolKV.
StrictTotalOrder(S) ==
    /\ \A x \in S : ~Less(x, x)
    /\ \A x, y \in S : Less(x, y) => ~Less(y, x)
    /\ \A x, y, z \in S : (Less(x, y) /\ Less(y, z)) => Less(x, z)
    /\ \A x, y \in S : x # y => (Less(x, y) # Less(y, x))

\* The stored policies admit one sorted arrangement, whatever the order in
\* which the map was walked, and a result of Sorted is that arrangement.
SortedIsFunctionOfMap ==
    LET S == PolKVs(poc.tier.Policies) IN
    /\ StrictTotalOrder(S)
    /\ Cardinality(SortSort(S)) = 1
    /\ (poc.op = "Sorted" /\ fault = "none") => poc.tier.OrderedPolicies \in SortSort(S)

\* A step that is a call of Sorted that returns leaves the policy map as it
\* was, and returns the list of the call before it should that also be Sorted.
SortedRepeats ==
    (poc'.op = "Sorted" /\ fault' = "none") =>
        /\ poc'.tier.Policies = poc.tier.Policies
        /\ poc.op = "Sorted" => poc'.tier.OrderedPolicies = poc.tier.OrderedPolicies

\* C29: Less is a strict total order on the stored policies, whose names are
\* pairwise distinct (irreflexive, asymmetric, transitive, exactly one of
\* Less(a, b) and Less(b, a) for a # b); so what Sorted returns is a function of
\* the policy map alone, a second call of Sorted without an OnUpdate between
\* returns the same list, and Sorted leaves the policy map unchanged.
C29_SortedDeterministic == [][SortedRepeats]_vars /\ []SortedIsFunctionOfMap

\* Sorted has returned three policies of which two have no order and so are
\* told apart by name only.
C29_Witness ==
    /\ poc.op = "Sorted" /\ fault = "none"
    /\ Len(poc.tier.OrderedPolicies) = 3
    /\ ~poc.tier.OrderedPolicies[1].Value.Order.nil
    /\ poc.tier.OrderedPolicies[2].Value.Order.nil
    /\ poc.tier.OrderedPolicies[3].Value.Order.nil

(***************************************************************************)
(* PolicySorter.OnUpdate: a replacement that keeps the order.              *)
(***************************************************************************)
\* What the claim says of a step that is OnUpdate(u) replacing a stored policy
\* by one whose order is the same, nil or the same number.
SameOrderNotDirty(u) ==
    LET policies == poc.tier.Policies IN
    (/\ u[1] = "model.PolicyKey" /\ u[2] \in DOMAIN policies /\ ~u[3].isNil
     /\ ~OrderDiffers(policies[u[2]].Order, u[3].Order))
        => ~poc'.dirty

\* C30: OnUpdate returns dirty = FALSE when a stored policy is replaced by a
\* policy value whose order is numerically the same, for an order that is a
\* number as for a nil order.
C30_SameOrderNotDirty ==
    [][\A u \in SorterUpdates :
          PolicySorterOnUpdate(u[1], u[2], u[3]) => SameOrderNotDirty(u)]_vars

(***************************************************************************)
(* Tracked and untracked policies of a workload endpoint.                  *)
(***************************************************************************)
\* The workload endpoint given every filtered-tier list of TierInputs.
NextWorkloadTiers ==
    /\ fault = "none"
    /\ \/ \E tiers \in TierInputs :
            /\ OnEndpointTierUpdate(wlKey, OneEndpoint(wlKey), tiers)
            /\ Unrecorded(<<"OnEndpointTierUpdate", wlKey, OneEndpoint(wlKey), tiers>>)
       \/ /\ OnEndpointTierUpdate(wlKey, NilEndpoint, <<>>)
          /\ Unrecorded(<<"OnEndpointTierUpdate", wlKey, NilEndpoint, <<>>>>)
       \/ \E tiers \in {<<>>, OneTiers} :
            /\ OnEndpointTierUpdate(hostKey, OneEndpoint(hostKey), tiers)
            /\ Unrecorded(<<"OnEndpointTierUpdate", hostKey, OneEndpoint(hostKey), tiers>>)
       \/ Flush /\ Flushed

SpecWorkloadTiers == Init /\ [][NextWorkloadTiers]_vars

\* The WorkloadEndpointUpdate messages of the flush.
WorkloadEndpointUpdates == {i \in 1..Len(out) : out[i].type = "WorkloadEndpointUpdate"}

\* The names of a tier's policies whose flag is the one given.
FlaggedNames(tier, flag) ==
    {tier.OrderedPolicies[j].Key.Name : j \in Flagged(tier, flag)}

\* The names the message lists for the tier of that name, in either list.
NamesListed(body, name) ==
    LET l == body.Tiers \o body.UntrackedTiers IN
    UNION {{l[n].Policies[m] : m \in 1..Len(l[n].Policies)} :
            n \in {k \in 1..Len(l) : l[k].Name = name}}

\* C31: the WorkloadEndpointUpdate of a flush carries the tracked tiers only:
\* Tiers holds every policy of the endpoint's filtered tiers without the
\* do-not-track flag, in the original order, and a policy with the flag is
\* listed nowhere in the message.
C31_WorkloadTrackedOnly ==
    (lastOp = "Flush" /\ fault = "none") =>
        \A i \in WorkloadEndpointUpdates :
            LET tiers == upstream.Endpoints[wlKey].tiers IN
            /\ SplitByFlag(tiers, out[i].body.Tiers, FALSE)
            /\ \A n \in 1..Len(tiers) :
                  NamesListed(out[i].body, tiers[n].Name) = FlaggedNames(tiers[n], FALSE)

\* A workload endpoint was sent whose first tier has one tracked and one
\* untracked policy and whose second tier has untracked policies only: the
\* message has one tier with one policy.
C31_Witness ==
    /\ lastOp = "Flush" /\ fault = "none"
    /\ \E i \in WorkloadEndpointUpdates :
          LET tiers == upstream.Endpoints[wlKey].tiers IN
          /\ Len(tiers) = 2
          /\ Cardinality(Flagged(tiers[1], TRUE)) = 1
          /\ Cardinality(Flagged(tiers[1], FALSE)) = 1
          /\ Flagged(tiers[2], FALSE) = {}
          /\ Flagged(tiers[2], TRUE) # {}
          /\ Len(out[i].body.Tiers) = 1
          /\ Len(out[i].body.Tiers[1].Policies) = 1

(***************************************************************************)
(* The sent sets of the keyed objects against the callbacks and messages.  *)
(***************************************************************************)
\* The sent sets name the keys whose last callback was an update or active.
SentIsUpstream ==
    /\ sentPolicies = DOMAIN upstream.Policies
    /\ sentProfiles = DOMAIN upstream.Profiles
    /\ sentEndpoints = DOMAIN upstream.Endpoints
    /\ sentHostIPs = upstream.HostIPs
    /\ sentIPPools = {CIDRFromCalicoNet(k.CIDR) : k \in upstream.IPPools}

\* What the receiver holds of the kind that a remove message removes.
HeldOfKind(d, type) ==
    CASE type = "ActivePolicyRemove" -> d.Policies
      [] type = "ActiveProfileRemove" -> d.Profiles
      [] type \in EndpointRemoveTypes -> d.Endpoints
      [] type = "HostMetadataRemove" -> d.HostIPs
      [] type = "IPAMPoolRemove" -> d.IPPools

KeyedRemoveTypes ==
    {"ActivePolicyRemove", "ActiveProfileRemove", "HostMetadataRemove", "IPAMPoolRemove"}
    \cup EndpointRemoveTypes

\* C32: after every Flush the sent sets of policies, profiles, endpoints, host
\* IPs and IP pools hold the keys whose most recent callback was an update or
\* active, and each remove message of the flush is for a key whose last message
\* before it was an update: none for a key the receiver was never told of or
\* was told is removed.
C32_SentViewAccurate ==
    (lastOp = "Flush" /\ fault = "none") =>
        /\ SentIsUpstream
        /\ \A i \in 1..Len(out) :
              out[i].type \in KeyedRemoveTypes
                  => out[i].id \in HeldOfKind(DeclaredAt(i), out[i].type)

\* A flush has removed the policy, the endpoint and the host IP sent before,
\* and the sent sets are empty of them.
C32_Witness ==
    /\ lastOp = "Flush" /\ fault = "none"
    /\ Has("ActivePolicyRemove") /\ Has("WorkloadEndpointRemove") /\ Has("HostMetadataRemove")
    /\ sentPolicies = {} /\ sentEndpoints = {} /\ sentHostIPs = {}
    /\ sentIPPools # {}

(***************************************************************************)
(* Invariants of the pending IP-set state.                                 *)
(***************************************************************************)
\* C33: in every reachable state no IP of a set is pending both as added and
\* as removed, and no IPSetDeltaUpdate lists an IP in both AddedMembers and
\* RemovedMembers.
C33_PendingIPsDisjoint ==
    /\ pendingAddedIPs \cap pendingRemovedIPs = {}
    /\ \A i \in 1..Len(out) :
          out[i].type = "IPSetDeltaUpdate" =>
              Listed(out[i].added) \cap Listed(out[i].removed) = {}

\* A flush has sent a delta that adds one IP to a set and removes another.
C33_Witness ==
    /\ lastOp = "Flush" /\ fault = "none"
    /\ \E i \in 1..Len(out) :
          /\ out[i].type = "IPSetDeltaUpdate"
          /\ out[i].added # <<>> /\ out[i].removed # <<>>

\* C34: in every reachable state pendingAddedIPSets and pendingRemovedIPSets
\* are disjoint and pendingRemovedIPSets is a subset of sentIPSets; a flush
\* emits no IPSetUpdate and IPSetRemove for one set id, and no IPSetRemove for
\* a set that was not sent before.
C34_PendingIPSetsDisjoint ==
    /\ pendingAddedIPSets \cap pendingRemovedIPSets = {}
    /\ pendingRemovedIPSets \subseteq sentIPSets
    /\ lastOp = "Flush" =>
          \A j \in 1..Len(out) :
              out[j].type = "IPSetRemove" =>
                  /\ out[j].id \in sentBefore.IPSets
                  /\ \A i \in 1..Len(out) :
                        out[i].type = "IPSetUpdate" => out[i].id # out[j].id

\* A flush has sent one set in full and removed the other.
C34_Witness ==
    /\ lastOp = "Flush" /\ fault = "none"
    /\ Has("IPSetUpdate") /\ Has("IPSetRemove")

(***************************************************************************)
(* One membership message per IP set and flush.                            *)
(***************************************************************************)
\* The messages of the flush that carry members of the set.
MembershipMessages(msgs, X) ==
    {i \in 1..Len(msgs) : msgs[i].type \in {"IPSetUpdate", "IPSetDeltaUpdate"} /\ msgs[i].id = X}

\* After a flush no set has more than one message carrying members.
OneMembershipMessage ==
    (lastOp = "Flush" /\ fault = "none") =>
        \A X \in SetIDs : Cardinality(MembershipMessages(out, X)) <= 1

\* A step that is a flush gives a set with pending added and pending removed
\* IPs one IPSetDeltaUpdate, with both lists.
BothListsInOneDelta ==
    (lastOp' = "Flush" /\ fault' = "none") =>
        \A X \in SetIDs :
            (Values(pendingAddedIPs, X) # {} /\ Values(pendingRemovedIPs, X) # {}) =>
                /\ Cardinality(MembershipMessages(out', X)) = 1
                /\ \A i \in MembershipMessages(out', X) :
                      /\ out'[i].type = "IPSetDeltaUpdate"
                      /\ Lists(out'[i].added, AddrStrings(Values(pendingAddedIPs, X)))
                      /\ Lists(out'[i].removed, AddrStrings(Values(pendingRemovedIPs, X)))

\* C35: with a well-formed upstream a flush emits at most one message carrying
\* members per IP set id: a set that gets an IPSetUpdate gets no
\* IPSetDeltaUpdate in that flush, and a set with pending added and pending
\* removed IPs gets a single IPSetDeltaUpdate carrying both lists.
C35_OneMembershipMessagePerSet == [][BothListsInOneDelta]_vars /\ []OneMembershipMessage

\* A flush has sent one set in full, with a member, and the other as a delta
\* with an added and a removed IP.
C35_Witness ==
    /\ lastOp = "Flush" /\ fault = "none"
    /\ \E i, j \in 1..Len(out) :
          /\ out[i].type = "IPSetUpdate" /\ out[i].members # <<>>
          /\ out[j].type = "IPSetDeltaUpdate"
          /\ out[j].added # <<>> /\ out[j].removed # <<>>

(***************************************************************************)
(* A nil global configuration: nothing is pending.                         *)
(***************************************************************************)
\* A step that is a flush without a pending global configuration cannot end in
\* the fatal error of UpdateFrom: UpdateFrom is not called.
NilGlobalCallsNoUpdateFrom ==
    (lastOp' = "Flush" /\ pendingGlobalConfig = Nil) => fault' = "none"

\* After a flush whose last OnConfigUpdate had a nil global configuration no
\* ConfigUpdate was emitted and that call's host configuration is still
\* pending; a ConfigUpdate of a flush is that of the last OnConfigUpdate since
\* the flush before, whose global configuration is not nil, with the host
\* configuration of that call.
NilGlobalLeavesHostPending ==
    (lastOp = "Flush" /\ fault = "none") =>
        /\ (ConfigCalls # {} /\ batch[Last(ConfigCalls)][2] = Nil) =>
                /\ ConfigUpdates(out) = <<>>
                /\ pendingGlobalConfig = Nil
                /\ pendingHostConfig = batch[Last(ConfigCalls)][3]
        /\ ConfigUpdates(out) # <<>> =>
                /\ ConfigCalls # {}
                /\ batch[Last(ConfigCalls)][2] # Nil
                /\ ConfigUpdates(out) =
                      <<ConfigUpdate(RawValues(batch[Last(ConfigCalls)][2],
                                               batch[Last(ConfigCalls)][3]))>>

\* C36: a nil pending global configuration means nothing is pending: after
\* OnConfigUpdate(nil, hostConfig) a flush calls UpdateFrom for neither source,
\* emits no ConfigUpdate and leaves the host configuration pending; a host
\* configuration is sent only with a later OnConfigUpdate that has a global
\* configuration, and then it is the host configuration of that later call.
C36_NilGlobalIsNothingPending ==
    [][NilGlobalCallsNoUpdateFrom]_vars /\ []NilGlobalLeavesHostPending

\* A flush after OnConfigUpdate(cfg, host) and then OnConfigUpdate(nil, host)
\* was silent and has left the host configuration pending.
C36_Witness ==
    /\ lastOp = "Flush" /\ fault = "none"
    /\ Cardinality(ConfigCalls) = 2
    /\ batch[Last(ConfigCalls)][2] = Nil
    /\ batch[Last(ConfigCalls \ {Last(ConfigCalls)})][2] # Nil
    /\ out = <<>>
    /\ pendingHostConfig # Nil

(***************************************************************************)
(* ConfigureEarlyLogging and ConfigureLogging (logutils).                  *)
(***************************************************************************)
\* The values of the log severity parameters and environment variables in
\* these runs: not set, the names of five levels, and a name that logrus does
\* not know.
LogSeverities == {"", "DEBUG", "INFO", "WARNING", "ERROR", "FATAL", "CRITICAL"}
LoggingConfigs ==
    [LogSeverityScreen : LogSeverities, LogSeverityFile : LogSeverities,
     LogSeveritySys : LogSeverities]

\* log.ParseLevel: the level of a name, in any case of letters, or an error
ParseLevel(lvl) ==
    CASE lvl \in {"panic", "PANIC"} -> [err |-> FALSE, level |-> Level("panic")]
      [] lvl \in {"fatal", "FATAL"} -> [err |-> FALSE, level |-> Level("fatal")]
      [] lvl \in {"error", "ERROR"} -> [err |-> FALSE, level |-> Level("error")]
      [] lvl \in {"warn", "WARN", "warning", "WARNING"} ->
            [err |-> FALSE, level |-> Level("warning")]
      [] lvl \in {"info", "INFO"} -> [err |-> FALSE, level |-> Level("info")]
      [] lvl \in {"debug", "DEBUG"} -> [err |-> FALSE, level |-> Level("debug")]
      [] OTHER -> [err |-> TRUE, level |-> Level("panic")]

\* safeParseLogLevel: the parsed level, panic for an empty or unknown name
safeParseLogLevel(logLevel) ==
    IF logLevel # "" /\ ~ParseLevel(logLevel).err
    THEN ParseLevel(logLevel).level
    ELSE Level("panic")

\* filterLevels: the levels of log.AllLevels up to maxLevel, in that order
filterLevels(maxLevel) ==
    SelectSeq([i \in 1..Len(AllLevels) |-> i - 1], LAMBDA l : l <= maxLevel)

\* ContextHook, whose Levels are log.AllLevels
ContextHook ==
    [hook |-> "ContextHook", writer |-> "none",
     levels |-> [i \in 1..Len(AllLevels) |-> i - 1]]

\* The other variables, which the logging functions leave alone.
LoggingUnchanged ==
    UNCHANGED <<bufVars, out, lastOp, prevFlush, sentBefore, notReadyCalled, batch,
                upstream, declared, declaredBefore, upMembers, downMembers,
                localEndpointFilter, poc, replay>>

\* ConfigureEarlyLogging, with the values of FELIX_EARLYLOGSEVERITYSCREEN and
\* FELIX_LOGSEVERITYSCREEN: the formatter and the context hook are installed
\* and the level is that of the first variable that is set, error when none
\* is set or the value does not parse.
ConfigureEarlyLogging(earlyLogSeverityScreen, logSeverityScreen) ==
    LET rawLogLevel == IF earlyLogSeverityScreen = "" THEN logSeverityScreen
                       ELSE earlyLogSeverityScreen
        logLevelScreen == IF rawLogLevel # "" /\ ~ParseLevel(rawLogLevel).err
                          THEN ParseLevel(rawLogLevel).level
                          ELSE Level("error")
    IN  /\ logrus' = [logrus EXCEPT !.formatter = "Formatter",
                                     !.hooks = Append(@, ContextHook),
                                     !.level = logLevelScreen]
        /\ logging' = [logging EXCEPT !.pc = "early"]
        /\ fault' = fault
        /\ LoggingUnchanged

\* The level ConfigureLogging hands to log.SetLevel.
mostVerboseLevel(logLevelScreen, logLevelFile, logLevelSyslog) ==
    LET afterFile == IF logLevelFile > logLevelScreen THEN logLevelFile ELSE logLevelScreen
    IN  IF logLevelSyslog > afterFile THEN logLevelScreen ELSE afterFile

\* What opening the log file can give.
FileOutcomes == {"ok", "Failed to create log dir", "Failed to open log file"}

\* ConfigureLogging(configParams) up to the screen target: the level and the
\* output are set and the screen hook is added.  The function then waits on
\* the file system and on syslog, so the logger is seen in this state.
ConfigureLoggingScreen(configParams) ==
    LET logLevelScreen == safeParseLogLevel(configParams.LogSeverityScreen)
        logLevelFile == safeParseLogLevel(configParams.LogSeverityFile)
        logLevelSyslog == safeParseLogLevel(configParams.LogSeveritySys)
    IN  /\ logrus' =
              [logrus EXCEPT
                 !.level = mostVerboseLevel(logLevelScreen, logLevelFile, logLevelSyslog),
                 !.out = "NullWriter",
                 !.hooks = IF configParams.LogSeverityScreen # ""
                           THEN Append(@, [hook |-> "StreamHook", writer |-> "os.Stdout",
                                           levels |-> filterLevels(logLevelScreen)])
                           ELSE @]
        /\ logging' = [pc |-> "file", configParams |-> configParams]
        /\ fault' = fault
        /\ LoggingUnchanged

\* ConfigureLogging, the file target: the log directory is made and the file
\* opened, either of which can fail and end the process, and the file hook is
\* added.
ConfigureLoggingFile(file) ==
    LET configParams == logging.configParams
        fileFails == configParams.LogSeverityFile # "" /\ file # "ok"
    IN  /\ logrus' =
              IF configParams.LogSeverityFile # "" /\ ~fileFails
              THEN [logrus EXCEPT !.hooks =
                        Append(@, [hook |-> "StreamHook", writer |-> "rotAwareFile",
                                   levels |-> filterLevels(
                                       safeParseLogLevel(configParams.LogSeverityFile))])]
              ELSE logrus
        /\ fault' = IF fileFails THEN file ELSE fault
        /\ logging' = [logging EXCEPT !.pc = "syslog"]
        /\ LoggingUnchanged

\* ConfigureLogging, the syslog target: the hook is added unless the
\* connection to syslog fails, which is logged only.
ConfigureLoggingSyslog(syslogErr) ==
    LET configParams == logging.configParams IN
    /\ logrus' =
          IF configParams.LogSeveritySys # "" /\ ~syslogErr
          THEN [logrus EXCEPT !.hooks =
                    Append(@, [hook |-> "LeveledHook", writer |-> "syslog",
                               levels |-> filterLevels(
                                   safeParseLogLevel(configParams.LogSeveritySys))])]
          ELSE logrus
    /\ fault' = fault
    /\ logging' = [logging EXCEPT !.pc = "done"]
    /\ LoggingUnchanged

\* ConfigureLogging, step by step.
ConfigureLogging ==
    \/ /\ logging.pc \in {"start", "early"}
       /\ \E configParams \in LoggingConfigs : ConfigureLoggingScreen(configParams)
    \/ /\ logging.pc = "file"
       /\ \E file \in FileOutcomes : ConfigureLoggingFile(file)
    \/ /\ logging.pc = "syslog"
       /\ \E syslogErr \in BOOLEAN : ConfigureLoggingSyslog(syslogErr)

\* The logging is set up once: ConfigureEarlyLogging at process start, and
\* ConfigureLogging, after it or alone, with the resolved configuration.
NextLogging ==
    /\ fault = "none"
    /\ \/ /\ logging.pc = "start"
          /\ \E early \in LogSeverities, screen \in LogSeverities :
                ConfigureEarlyLogging(early, screen)
       \/ ConfigureLogging

SpecLogging == Init /\ [][NextLogging]_vars

\* The larger of two levels, the more verbose one.
MoreVerbose(a, b) == IF a > b THEN a ELSE b
\* The most verbose of the three configured levels.
MostVerboseConfigured(configParams) ==
    MoreVerbose(safeParseLogLevel(configParams.LogSeverityScreen),
                MoreVerbose(safeParseLogLevel(configParams.LogSeverityFile),
                            safeParseLogLevel(configParams.LogSeveritySys)))

\* C37: ConfigureLogging sets the global log level to the most verbose of the
\* screen, file and syslog levels, for every combination of the three, those
\* in which syslog is strictly the most verbose included.
C37_GlobalLevelIsMostVerbose ==
    logging.pc \in {"file", "syslog", "done"} =>
        logrus.level = MostVerboseConfigured(logging.configParams)

====
